---- MODULE Spec2Model ----
(***************************************************************************)
(* gr_modtool: the CMakeLists.txt editor (class CMakeFileEditor of         *)
(* src/gr_modtool.py) as a state machine over text buffers.                *)
(*                                                                         *)
(* A buffer is a sequence of one-character strings.  Every editor          *)
(* operation is a regular-expression search or substitution; the regular   *)
(* expressions are kept as the source writes them and run by a             *)
(* backtracking matcher with Python's priorities (leftmost match, greedy   *)
(* and lazy quantifiers tried in order, numbered groups).                  *)
(***************************************************************************)
EXTENDS Naturals, Sequences, FiniteSets

(***************************************************************************)
(* Characters.                                                             *)
(***************************************************************************)
Letters == {"a", "b", "x", "D"}
Space == {" ", "\n"}
Chars == Letters \cup Space \cup {".", "(", ")", "#"}

\* the character classes the source's expressions use
ClsSpace == Space                      \* \s
ClsWord == Letters                     \* \w
ClsNotParen == Chars \ {"(", ")"}      \* [^()]
ClsNotNewline == Chars \ {"\n"}        \* [^\n] and . (no DOTALL)
ClsSplit == {" ", "(", ")", "\n"}      \* [ /)(\t\n\r\f\v]

(***************************************************************************)
(* Regular expressions: a sequence of nodes.  Quantifiers apply to one     *)
(* character class, which is all the source's expressions need.            *)
(***************************************************************************)
Ch(cs) == <<[t |-> "ch", cs |-> cs, n |-> 0]>>
Star(cs) == <<[t |-> "star", cs |-> cs, n |-> 0]>>
LazyStar(cs) == <<[t |-> "lazy", cs |-> cs, n |-> 0]>>
Opt(cs) == <<[t |-> "opt", cs |-> cs, n |-> 0]>>
Plus(cs) == Ch(cs) \o Star(cs)
Bol == <<[t |-> "bol", cs |-> {}, n |-> 0]>>
Eos == <<[t |-> "eos", cs |-> {}, n |-> 0]>>
WordB == <<[t |-> "wb", cs |-> {}, n |-> 0]>>
Open(n) == <<[t |-> "open", cs |-> {}, n |-> n]>>
Close(n) == <<[t |-> "close", cs |-> {}, n |-> n]>>

\* a literal piece of an expression, such as '\('
Lit(str) == [i \in 1..Len(str) |-> [t |-> "ch", cs |-> {str[i]}, n |-> 0]]

\* a caller's string pasted into an expression unescaped: '.' is the
\* wildcard, every other character of the alphabet stands for itself
Rx(str) ==
  [i \in 1..Len(str) |->
     [t |-> "ch", cs |-> IF str[i] = "." THEN ClsNotNewline ELSE {str[i]}, n |-> 0]]

NoGroups == <<0, 0, 0, 0>>
NoMatch == [ok |-> FALSE, b |-> 0, e |-> 0, g |-> NoGroups]

IsWordAt(s, i) == i >= 1 /\ i <= Len(s) /\ s[i] \in ClsWord

\* The backtracking matcher: nodes j.. of re against s from position i
\* (1-based, the next character to read); g carries the groups' bounds.
\* The result is the first success in Python's order of alternatives.
RECURSIVE MatchFrom(_, _, _, _, _)
MatchFrom(re, j, s, i, g) ==
  IF j > Len(re) THEN [ok |-> TRUE, b |-> 0, e |-> i, g |-> g]
  ELSE
    LET h == re[j]
        here == i <= Len(s) /\ s[i] \in h.cs
    IN CASE h.t = "ch" ->
              IF here THEN MatchFrom(re, j + 1, s, i + 1, g) ELSE NoMatch
         [] h.t = "star" ->
              IF here
              THEN LET more == MatchFrom(re, j, s, i + 1, g)
                   IN IF more.ok THEN more ELSE MatchFrom(re, j + 1, s, i, g)
              ELSE MatchFrom(re, j + 1, s, i, g)
         [] h.t = "lazy" ->
              LET none == MatchFrom(re, j + 1, s, i, g)
              IN IF none.ok THEN none
                 ELSE IF here THEN MatchFrom(re, j, s, i + 1, g) ELSE NoMatch
         [] h.t = "opt" ->
              IF here
              THEN LET one == MatchFrom(re, j + 1, s, i + 1, g)
                   IN IF one.ok THEN one ELSE MatchFrom(re, j + 1, s, i, g)
              ELSE MatchFrom(re, j + 1, s, i, g)
         [] h.t = "bol" ->
              IF i = 1 \/ s[i - 1] = "\n"
              THEN MatchFrom(re, j + 1, s, i, g) ELSE NoMatch
         [] h.t = "eos" ->
              IF i = Len(s) + 1 \/ (i = Len(s) /\ s[i] = "\n")
              THEN MatchFrom(re, j + 1, s, i, g) ELSE NoMatch
         [] h.t = "wb" ->
              IF IsWordAt(s, i - 1) # IsWordAt(s, i)
              THEN MatchFrom(re, j + 1, s, i, g) ELSE NoMatch
         [] h.t = "open" ->
              MatchFrom(re, j + 1, s, i, [g EXCEPT ![2 * h.n - 1] = i])
         [] h.t = "close" ->
              MatchFrom(re, j + 1, s, i, [g EXCEPT ![2 * h.n] = i])

\* re.match: at position i only
MatchAt(re, s, i) ==
  LET m == MatchFrom(re, 1, s, i, NoGroups) IN [m EXCEPT !.b = i]

\* re.search from position i on: the leftmost match
RECURSIVE SearchFrom(_, _, _)
SearchFrom(re, s, i) ==
  IF i > Len(s) + 1 THEN NoMatch
  ELSE LET m == MatchAt(re, s, i)
       IN IF m.ok THEN m ELSE SearchFrom(re, s, i + 1)

Search(re, s) == SearchFrom(re, s, 1)

Slice(s, from, to) == SubSeq(s, from, to - 1)
Group(s, m, n) == Slice(s, m.g[2 * n - 1], m.g[2 * n])

(***************************************************************************)
(* Text helpers (str.splitlines, str.strip, str.replace, re.split).        *)
(***************************************************************************)
\* the index of the first ch at or after i, Len(s) + 1 when there is none
RECURSIVE IndexFrom(_, _, _)
IndexFrom(s, ch, i) ==
  IF i > Len(s) THEN Len(s) + 1
  ELSE IF s[i] = ch THEN i ELSE IndexFrom(s, ch, i + 1)

\* str.splitlines(): the lines without their newlines; no empty last line
RECURSIVE SplitLinesFrom(_, _)
SplitLinesFrom(s, i) ==
  IF i > Len(s) THEN <<>>
  ELSE LET e == IndexFrom(s, "\n", i)
       IN <<Slice(s, i, e)>> \o SplitLinesFrom(s, e + 1)

SplitLines(s) == SplitLinesFrom(s, 1)

\* re.split on a one-character class: the words between separators,
\* empty ones included
RECURSIVE SplitWordsFrom(_, _, _)
SplitWordsFrom(s, i, start) ==
  IF i > Len(s) THEN <<Slice(s, start, i)>>
  ELSE IF s[i] \in ClsSplit
       THEN <<Slice(s, start, i)>> \o SplitWordsFrom(s, i + 1, i + 1)
       ELSE SplitWordsFrom(s, i + 1, start)

SplitWords(s) == SplitWordsFrom(s, 1, 1)

RECURSIVE LStrip(_)
LStrip(s) == IF s # <<>> /\ Head(s) \in Space THEN LStrip(Tail(s)) ELSE s

RECURSIVE RStrip(_)
RStrip(s) ==
  IF s # <<>> /\ s[Len(s)] \in Space THEN RStrip(SubSeq(s, 1, Len(s) - 1)) ELSE s

Strip(s) == LStrip(RStrip(s))

StartsWithAt(s, i, old) ==
  i + Len(old) - 1 <= Len(s) /\ SubSeq(s, i, i + Len(old) - 1) = old

\* str.replace(old, new): every non-overlapping occurrence, left to right
RECURSIVE ReplaceFrom(_, _, _, _)
ReplaceFrom(s, i, old, new) ==
  IF old = <<>>
  THEN IF i > Len(s) THEN new ELSE new \o <<s[i]>> \o ReplaceFrom(s, i + 1, old, new)
  ELSE IF i > Len(s) THEN <<>>
  ELSE IF StartsWithAt(s, i, old)
       THEN new \o ReplaceFrom(s, i + Len(old), old, new)
       ELSE <<s[i]>> \o ReplaceFrom(s, i + 1, old, new)

Replace(s, old, new) == ReplaceFrom(s, 1, old, new)

(***************************************************************************)
(* CMakeFileEditor: the expressions and what each method does to the       *)
(* buffer.                                                                 *)
(***************************************************************************)
\* get_entry_value: '%s\(%s([^()]+)\)' % (entry, to_ignore)
GetEntryRe(entry, to_ignore) ==
  Rx(entry) \o Lit(<<"(">>) \o to_ignore
    \o Open(1) \o Plus(ClsNotParen) \o Close(1) \o Lit(<<")">>)

\* mutant: the value cut at its first white space
GetEntryValueFirstWord(buf, entry, to_ignore) ==
  LET m == Search(GetEntryRe(entry, to_ignore), buf)
      v == Strip(Group(buf, m, 1))
      cut == IndexFrom(v, " ", 1)
  IN IF m.ok THEN [found |-> TRUE, v |-> SubSeq(v, 1, cut - 1)]
     ELSE [found |-> FALSE, v |-> <<>>]

\* the value of the first entry, stripped; found = FALSE stands for None
GetEntryValue(buf, entry, to_ignore) ==
  LET m == Search(GetEntryRe(entry, to_ignore), buf)
  IN IF m.ok THEN [found |-> TRUE, v |-> Strip(Group(buf, m, 1))]
     ELSE [found |-> FALSE, v |-> <<>>]

\* append_value: '(%s\([^()]*?)\s*?(\s?%s)\)' % (entry, to_ignore)
AppendRe(entry, to_ignore) ==
  Open(1) \o Rx(entry) \o Lit(<<"(">>) \o LazyStar(ClsNotParen) \o Close(1)
    \o LazyStar(ClsSpace)
    \o Open(2) \o Opt(ClsSpace) \o to_ignore \o Close(2) \o Lit(<<")">>)

\* mutant: a value the buffer holds already is not appended again
AppendValueOnce(buf, sep, entry, value, to_ignore) ==
  LET m == Search(AppendRe(entry, to_ignore), buf)
  IN IF m.ok /\ ~Search(Lit(value), buf).ok
     THEN Slice(buf, 1, m.b) \o Group(buf, m, 1) \o sep \o value
            \o Group(buf, m, 2) \o <<")">> \o Slice(buf, m.e, Len(buf) + 1)
     ELSE buf

\* mutant: without the entry, the value goes to the end of the buffer
AppendValueOrAtEnd(buf, sep, entry, value, to_ignore) ==
  LET m == Search(AppendRe(entry, to_ignore), buf)
  IN IF m.ok
     THEN Slice(buf, 1, m.b) \o Group(buf, m, 1) \o sep \o value
            \o Group(buf, m, 2) \o <<")">> \o Slice(buf, m.e, Len(buf) + 1)
     ELSE buf \o sep \o value

\* mutant: the expression without its white-space part,
\* '(%s\([^()]*?)(%s)\)', so the value lands right before the parenthesis
AppendValuePlain(buf, sep, entry, value, to_ignore) ==
  LET m == Search(Open(1) \o Rx(entry) \o Lit(<<"(">>) \o LazyStar(ClsNotParen)
                    \o Close(1) \o Open(2) \o to_ignore \o Close(2)
                    \o Lit(<<")">>), buf)
  IN IF m.ok
     THEN Slice(buf, 1, m.b) \o Group(buf, m, 1) \o sep \o value
            \o Group(buf, m, 2) \o <<")">> \o Slice(buf, m.e, Len(buf) + 1)
     ELSE buf

\* sub(r'\1' + separator + value + r'\2)', count=1)
AppendValue(buf, sep, entry, value, to_ignore) ==
  LET m == Search(AppendRe(entry, to_ignore), buf)
  IN IF m.ok
     THEN Slice(buf, 1, m.b) \o Group(buf, m, 1) \o sep \o value
            \o Group(buf, m, 2) \o <<")">> \o Slice(buf, m.e, Len(buf) + 1)
     ELSE buf

\* remove_value: '^\s*(%s\(\s*%s[^()]*?\s*)%s\s*([^()]*\))'
\*                 % (entry, to_ignore, value)
RemoveRe(entry, value, to_ignore) ==
  Bol \o Star(ClsSpace)
    \o Open(1) \o Rx(entry) \o Lit(<<"(">>) \o Star(ClsSpace) \o to_ignore
    \o LazyStar(ClsNotParen) \o Star(ClsSpace) \o Close(1)
    \o Rx(value) \o Star(ClsSpace)
    \o Open(2) \o Star(ClsNotParen) \o Lit(<<")">>) \o Close(2)

\* sub(r'\1\2', count=1)
RemoveValue(buf, entry, value, to_ignore) ==
  LET m == Search(RemoveRe(entry, value, to_ignore), buf)
  IN IF m.ok
     THEN Slice(buf, 1, m.b) \o Group(buf, m, 1) \o Group(buf, m, 2)
            \o Slice(buf, m.e, Len(buf) + 1)
     ELSE buf

\* mutant: the expression without the rest of the line, '[^\n]*\n'
DeleteReNoNewline(entry, value_pattern) ==
  Rx(entry) \o Star(ClsSpace) \o Lit(<<"(">>) \o Star(ClsNotParen)
    \o Rx(value_pattern) \o Star(ClsNotParen) \o Lit(<<")">>)

\* delete_entry: '%s\s*\([^()]*%s[^()]*\)[^\n]*\n' % (entry, value_pattern)
DeleteRe(entry, value_pattern) ==
  Rx(entry) \o Star(ClsSpace) \o Lit(<<"(">>) \o Star(ClsNotParen)
    \o Rx(value_pattern) \o Star(ClsNotParen) \o Lit(<<")">>)
    \o Star(ClsNotNewline) \o Lit(<<"\n">>)

\* sub('', count=1)
DeleteEntry(buf, entry, value_pattern) ==
  LET m == Search(DeleteRe(entry, value_pattern), buf)
  IN IF m.ok THEN Slice(buf, 1, m.b) \o Slice(buf, m.e, Len(buf) + 1) ELSE buf

\* mutant: '\n\n\n', the + forgotten
TripleNewlineRe == Lit(<<"\n", "\n", "\n">>)

\* remove_double_newlines: '\n\n\n+'
DoubleNewlineRe == Lit(<<"\n", "\n">>) \o Plus({"\n"})

\* sub('\n\n'): every match, left to right
RECURSIVE SubDoubleNewlines(_, _)
SubDoubleNewlines(buf, i) ==
  LET m == SearchFrom(DoubleNewlineRe, buf, i)
  IN IF m.ok
     THEN Slice(buf, i, m.b) \o <<"\n", "\n">> \o SubDoubleNewlines(buf, m.e)
     ELSE Slice(buf, i, Len(buf) + 1)

\* a remove_double_newlines that replaces the first run only (count=1)
RemoveDoubleNewlinesOnce(buf) ==
  LET m == Search(DoubleNewlineRe, buf)
  IN IF m.ok
     THEN Slice(buf, 1, m.b) \o <<"\n", "\n">> \o Slice(buf, m.e, Len(buf) + 1)
     ELSE buf

RemoveDoubleNewlines(buf) == SubDoubleNewlines(buf, 1)

\* comment_out_lines: the lines are those of the buffer as the loop
\* starts; each matching line's text is replaced wherever the buffer,
\* as changed so far, contains it
RECURSIVE CommentLoop(_, _, _, _, _)
CommentLoop(buf, lines, k, pattern, comment_str) ==
  IF k > Len(lines) THEN buf
  ELSE LET line == lines[k]
           next == IF Search(Rx(pattern), line).ok
                   THEN Replace(buf, line, comment_str \o line)
                   ELSE buf
       IN CommentLoop(next, lines, k + 1, pattern, comment_str)

CommentOutLines(buf, pattern, comment_str) ==
  CommentLoop(buf, SplitLines(buf), 1, pattern, comment_str)

\* a line find_filenames_match and disable_file skip: blank, or a comment
SkippedLine(line) == Strip(line) = <<>> \/ Head(Strip(line)) = "#"

\* find_filenames_match: fname_re = '[a-zA-Z]\w+\.\w{1,5}$'
FnameRe ==
  Ch(Letters) \o Plus(ClsWord) \o Lit(<<".">>)
    \o Ch(ClsWord) \o Opt(ClsWord) \o Opt(ClsWord) \o Opt(ClsWord) \o Opt(ClsWord)
    \o Eos

RECURSIVE WordsMatching(_, _, _)
WordsMatching(words, k, regex) ==
  IF k > Len(words) THEN <<>>
  ELSE (IF MatchAt(FnameRe, words[k], 1).ok /\ Search(Rx(regex), words[k]).ok
        THEN <<words[k]>> ELSE <<>>)
       \o WordsMatching(words, k + 1, regex)

RECURSIVE FilenamesLoop(_, _, _)
FilenamesLoop(lines, k, regex) ==
  IF k > Len(lines) THEN <<>>
  ELSE (IF SkippedLine(lines[k]) THEN <<>>
        ELSE WordsMatching(SplitWords(lines[k]), 1, regex))
       \o FilenamesLoop(lines, k + 1, regex)

FindFilenamesMatch(buf, regex) == FilenamesLoop(SplitLines(buf), 1, regex)

\* disable_file: r'\b' + fname + r'\b', and the substituted
\* r'(\b' + fname + r'\b)\s*'
FnameWordRe(fname) == WordB \o Rx(fname) \o WordB
DisableRe(fname) == Open(1) \o FnameWordRe(fname) \o Close(1) \o Star(ClsSpace)

\* the loop: the first line, comments and blanks aside, that holds fname
\* decides starts_line, and ends the loop
RECURSIVE StartsLine(_, _, _)
StartsLine(lines, k, fname) ==
  IF k > Len(lines) THEN FALSE
  ELSE IF SkippedLine(lines[k]) THEN StartsLine(lines, k + 1, fname)
  ELSE IF Search(FnameWordRe(fname), lines[k]).ok
       THEN MatchAt(Rx(fname), LStrip(lines[k]), 1).ok
       ELSE StartsLine(lines, k + 1, fname)

\* subn(comment_out_re): every match, with the number of substitutions
RECURSIVE SubnDisable(_, _, _, _, _)
SubnDisable(buf, i, fname, before, after) ==
  LET m == SearchFrom(DisableRe(fname), buf, i)
  IN IF m.ok
     THEN LET rest == SubnDisable(buf, m.e, fname, before, after)
          IN [text |-> Slice(buf, i, m.b) \o before \o Group(buf, m, 1) \o after
                         \o rest.text,
              nsubs |-> rest.nsubs + 1]
     ELSE [text |-> Slice(buf, i, Len(buf) + 1), nsubs |-> 0]

\* a disable_file that comments out the first occurrence only
DisableFileFirstOnly(buf, indent, fname) ==
  LET starts_line == StartsLine(SplitLines(buf), 1, fname)
      after == <<"\n">> \o indent
      before == IF starts_line THEN <<"#">> ELSE <<"\n">> \o indent \o <<"#">>
      m == Search(DisableRe(fname), buf)
  IN IF m.ok
     THEN [text |-> Slice(buf, 1, m.b) \o before \o Group(buf, m, 1) \o after
                      \o Slice(buf, m.e, Len(buf) + 1),
           nsubs |-> 1]
     ELSE [text |-> buf, nsubs |-> 0]

DisableFile(buf, indent, fname) ==
  LET starts_line == StartsLine(SplitLines(buf), 1, fname)
      after == <<"\n">> \o indent
      before == IF starts_line THEN <<"#">> ELSE <<"\n">> \o indent \o <<"#">>
  IN SubnDisable(buf, 1, fname, before, after)

\* a disable_file that only warns of more than one replacement
DisableWarnsOfManyOnly(nsubs) == nsubs > 1

\* disable_file's if nsubs == 0: print ... elif nsubs > 1: print ...
DisableWarns(nsubs) ==
  IF nsubs = 0 THEN TRUE
  ELSE IF nsubs > 1 THEN TRUE
  ELSE FALSE

(***************************************************************************)
(* append_re_line_sequence, the function the add command registers a block  *)
(* with in the files that are not edited through CMakeFileEditor.           *)
(***************************************************************************)
\* re.findall(linepattern, s, flags=re.MULTILINE) for an expression without
\* groups: the texts of the matches, left to right, none overlapping
RECURSIVE FindAllFrom(_, _, _)
FindAllFrom(re, s, i) ==
  LET m == SearchFrom(re, s, i)
  IN IF ~m.ok THEN <<>>
     ELSE <<Slice(s, m.b, m.e)>>
            \o FindAllFrom(re, s, IF m.e > m.b THEN m.e ELSE m.e + 1)

\* append_re_line_sequence: the content of the file after the call
AppendReLineSequence(oldfile, linepattern, newline) ==
  LET lines == FindAllFrom(linepattern, oldfile, 1)
      last_line == lines[Len(lines)]
  IN IF Len(lines) = 0 THEN oldfile \o newline
     ELSE Replace(oldfile, last_line, last_line \o newline \o <<"\n">>)

\* the line patterns of the callers, "#" standing for "#include":
\* '^#include.*\n' (_run_swig) and '#include.*\n' (_run_lib)
IncludeLineRe == Bol \o Lit(<<"#">>) \o Star(ClsNotNewline) \o Lit(<<"\n">>)
IncludeRe == Lit(<<"#">>) \o Star(ClsNotNewline) \o Lit(<<"\n">>)

(***************************************************************************)
(* The argument-list functions of the code generator.                      *)
(***************************************************************************)
\* the characters of an argument list that the functions tell apart
ArgChars == {"a", " ", "\t", ",", "=", ")"}
ArgSpace == {" ", "\t"}                 \* what str.strip() strips
ClsNotCommaClose == ArgChars \ {",", ")"}   \* [^,)]

\* ' *=[^,)]*'
DefvalRe == Star({" "}) \o Lit(<<"=">>) \o Star(ClsNotCommaClose)

\* sub(""): every match, left to right
RECURSIVE SubDefval(_, _)
SubDefval(str, i) ==
  LET m == SearchFrom(DefvalRe, str, i)
  IN IF m.ok
     THEN Slice(str, i, m.b) \o SubDefval(str, m.e)
     ELSE Slice(str, i, Len(str) + 1)

\* a strip_default_values that removes the first default value only
StripDefaultValuesFirst(str) ==
  LET m == Search(DefvalRe, str)
  IN IF m.ok
     THEN Slice(str, 1, m.b) \o Slice(str, m.e, Len(str) + 1)
     ELSE str

\* strip_default_values
StripDefaultValues(str) == SubDefval(str, 1)

\* str.split(sep): the pieces between the separators, empty ones included
RECURSIVE SplitOn(_, _)
SplitOn(str, sep) ==
  LET i == IndexFrom(str, sep, 1)
  IN IF i > Len(str) THEN <<str>>
     ELSE <<SubSeq(str, 1, i - 1)>> \o SplitOn(SubSeq(str, i + 1, Len(str)), sep)

\* part.strip()
RECURSIVE ArgLStrip(_)
ArgLStrip(str) ==
  IF str # <<>> /\ Head(str) \in ArgSpace THEN ArgLStrip(Tail(str)) ELSE str
RECURSIVE ArgRStrip(_)
ArgRStrip(str) ==
  IF str # <<>> /\ str[Len(str)] \in ArgSpace
  THEN ArgRStrip(SubSeq(str, 1, Len(str) - 1)) ELSE str
ArgStrip(str) == ArgLStrip(ArgRStrip(str))

\* seq[-1]
Last(seq) == seq[Len(seq)]

\* ", ".join(parts)
RECURSIVE JoinComma(_)
JoinComma(parts) ==
  IF Len(parts) = 1 THEN parts[1]
  ELSE parts[1] \o <<",", " ">> \o JoinComma(Tail(parts))

\* strip_arg_types
StripArgTypes(str) ==
  LET parts == SplitOn(StripDefaultValues(str), ",")
  IN JoinComma([k \in 1..Len(parts) |-> Last(SplitOn(ArgStrip(parts[k]), " "))])

(***************************************************************************)
(* The template renderer: get_template of gr_modtool.py, rendering with    *)
(* Cheetah, and CodeGenerator.get_template of src/src/code_generator.py.   *)
(* A context is a function from the keys it holds to their values; a       *)
(* rendered text is the sequence of its fragments.                         *)
(***************************************************************************)
\* ModToolAdd._block_types
BlockTypes == {"sink", "source", "sync", "decimator", "interpolator",
               "general", "hiercpp", "hierpython", "noblock"}

\* self.grtypelist
grtypelist ==
  [k \in {"sync", "decimator", "interpolator", "general", "hiercpp",
          "noblock", "hierpython"} |->
     CASE k = "sync" -> "gr_sync_block"
       [] k = "decimator" -> "gr_sync_decimator"
       [] k = "interpolator" -> "gr_sync_interpolator"
       [] k = "general" -> "gr_block"
       [] k = "hiercpp" -> "gr_hier_block2"
       [] OTHER -> ""]

\* the keys of Templates in gr_modtool.py, each with the context keys its
\* text refers to, in the order of their first use
Templates ==
  [k \in {"defaultlicense", "block_impl_h", "block_impl_cpp", "block_def_h",
          "qa_cpp", "qa_h", "qa_python", "hier_python", "noblock_h",
          "noblock_cpp", "grc_xml", "usage"} |->
     CASE k = "block_impl_h" -> <<"license", "modname", "blockname", "arglist">>
       [] k = "block_impl_cpp" -> <<"license", "blockname", "modname", "arglist",
                                    "inputsig", "outputsig">>
       [] k = "block_def_h" -> <<"license", "modname", "blockname", "arglist">>
       [] k = "qa_cpp" -> <<"license", "blockname", "modname">>
       [] k = "qa_h" -> <<"license", "blockname", "modname">>
       [] k = "qa_python" -> <<"license", "modname", "blockname">>
       [] k = "hier_python" -> <<"license", "blockname", "arglist", "inputsig",
                                 "outputsig">>
       [] k = "noblock_h" -> <<"license", "modname", "blockname", "arglist">>
       [] k = "noblock_cpp" -> <<"license", "modname", "blockname", "arglist">>
       [] k = "grc_xml" -> <<"blockname", "modname", "arglist">>
       [] OTHER -> <<>>]

\* the keys of Templates in src/src/templates.py; every value is a str
SplitTemplates == DOMAIN Templates \cup {"block_python"}

\* what a call returned or raised
Returned(text) == [ok |-> TRUE, exc |-> "", arg |-> "", text |-> text]
Raised(exc, arg) == [ok |-> FALSE, exc |-> exc, arg |-> arg, text |-> <<>>]
NotRendered == Raised("", "")
NoContext == [k \in {} |-> ""]

\* the first name of refs that is not a key of ctx, "" when there is none
RECURSIVE FirstMissing(_, _)
FirstMissing(refs, ctx) ==
  IF refs = <<>> THEN ""
  ELSE IF Head(refs) \notin DOMAIN ctx THEN Head(refs)
  ELSE FirstMissing(Tail(refs), ctx)

\* Templates['block_impl_cpp'] of gr_modtool.py, rendered: the #if and #set
\* directives on $grblocktype
BlockImplCpp(ctx, grblocktype) ==
  LET decimation ==
        IF grblocktype = "gr_sync_decimator" THEN ", <+decimation+>"
        ELSE IF grblocktype = "gr_sync_interpolator" THEN ", <+interpolation+>"
        ELSE ""
      constructor ==
        IF grblocktype = "gr_hier_block2"
        THEN <<"{", "connect(self(), 0, d_firstblock, 0);",
               "connect(d_lastblock, 0, self(), 0);", "}">>
        ELSE <<"{}">>
      work ==
        IF grblocktype = "gr_block" THEN <<"general_work">>
        ELSE IF grblocktype = "gr_hier_block2" THEN <<>>
        ELSE <<"work">>
  IN <<ctx["license"], "make", "constructor", ":", grblocktype, "(",
       ctx["inputsig"], ctx["outputsig"], decimation, ")">>
     \o constructor \o <<"destructor">> \o work

\* str(template): Cheetah fills the placeholders from the context and the
\* template's own attributes, and raises NotFound for a name it cannot find
CheetahRender(id, ctx, grblocktype) ==
  LET missing == FirstMissing(Templates[id], ctx)
  IN IF missing # "" THEN Raised("NotFound", missing)
     ELSE IF id = "block_impl_cpp" THEN Returned(BlockImplCpp(ctx, grblocktype))
     ELSE Returned(<<id>> \o [i \in 1..Len(Templates[id]) |-> ctx[Templates[id][i]]])

\* get_template of gr_modtool.py: str(GRMTemplate(Templates[tpl_id], kwargs))
GetTemplate(id, ctx) ==
  IF id \notin DOMAIN Templates THEN Raised("KeyError", id)
  ELSE IF "blocktype" \notin DOMAIN ctx THEN Raised("KeyError", "blocktype")
  ELSE IF ctx["blocktype"] \notin DOMAIN grtypelist
       THEN Raised("KeyError", ctx["blocktype"])
  ELSE CheetahRender(id, ctx, grtypelist[ctx["blocktype"]])

\* Templates[key].substitute(kwargs) of code_generator.py: the value is a
\* str, which has no substitute
SplitSubstitute(key) ==
  IF key \notin SplitTemplates THEN Raised("KeyError", key)
  ELSE Raised("AttributeError", "substitute")

\* CodeGenerator._get_block_cpp
GetBlockCpp(ctx) ==
  IF "work_cpp" \notin SplitTemplates THEN Raised("KeyError", "work_cpp")
  ELSE IF ~SplitSubstitute("block_cpp_workcall").ok
       THEN SplitSubstitute("block_cpp_workcall")
  ELSE SplitSubstitute("block_impl_cpp")

\* the key of the work function that get_template looks up for block_impl_h
WorkH(blocktype) ==
  IF blocktype = "general" THEN "generalwork_h"
  ELSE IF blocktype = "hiercpp" THEN ""
  ELSE "work_h"

\* CodeGenerator.get_template
CodeGeneratorGetTemplate(id, ctx) ==
  LET missing ==
        FirstMissing((IF id \in {"block_impl_h", "block_impl_cpp", "block_def_h",
                                 "qa_h", "qa_cpp", "noblock_h", "noblock_cpp",
                                 "qa_python", "hier_python"}
                      THEN <<"license">> ELSE <<>>)
                     \o <<"arglist", "blockname", "modname", "blocktype">>, ctx)
  IN IF missing # "" THEN Raised("KeyError", missing)
     ELSE IF ctx["blocktype"] \notin DOMAIN grtypelist
          THEN Raised("KeyError", ctx["blocktype"])
     ELSE IF /\ id = "block_impl_h"
             /\ WorkH(ctx["blocktype"]) # ""
             /\ WorkH(ctx["blocktype"]) \notin SplitTemplates
          THEN Raised("KeyError", WorkH(ctx["blocktype"]))
     ELSE IF id = "block_impl_cpp" THEN GetBlockCpp(ctx)
     ELSE SplitSubstitute(id)

(***************************************************************************)
(* The add command: ModToolAdd.setup and ModToolAdd.run.  A file is the    *)
(* sequence of its fragments; the files of a run have fixed names, "b"     *)
(* standing for the block name and "mod" for the module name.              *)
(***************************************************************************)
\* the content of a path that is not a file
Absent == <<"(no file)">>

\* the module's subdirectories that ModTool.setup looks for
Subdirs == {"lib", "include", "python", "swig", "grc"}

\* the block names typed or given with -n
BlockNameInputs == {<<"b">>, <<"!">>}
\* the block names given with -N: an identifier, an identifier followed by
\* another character, another character alone, the empty name
BlockNames == {<<"b">>, <<"b", "!">>, <<"!">>, <<>>}

\* a str of the characters of chars
RECURSIVE Str(_)
Str(chars) == IF chars = <<>> THEN "" ELSE Head(chars) \o Str(Tail(chars))

\* os.path.join(dir, fname), as the pair of its parts
Path(dir, fname) == <<dir, fname>>
Dir(path) == path[1]

\* the files a run edits: the CMakeLists.txt files, and the files in which
\* a block is registered by hand
CMakePaths == {Path(d, "CMakeLists.txt") : d \in {"lib", "include", "python", "grc"}}
MainSwigFile == Path("swig", "mod_swig.i")
RegistrationPaths == {MainSwigFile, Path("lib", "qa_mod.cc"),
                      Path("python", "__init__.py")}
\* the files _write_tpl writes for a block of the given name
BlockPathsOf(name) ==
  {Path("lib", name \o "_impl.h"), Path("lib", name \o "_impl.cc"),
   Path("include", name \o ".h"), Path("lib", name \o ".cc"),
   Path("lib", "qa_" \o name \o ".cc"), Path("lib", "qa_" \o name \o ".h"),
   Path("python", "qa_" \o name \o ".py"), Path("python", name \o ".py"),
   Path("grc", "mod_" \o name \o ".xml")}
BlockPaths ==
  UNION {BlockPathsOf(Str(n)) : n \in (BlockNameInputs \cup BlockNames) \ {<<"!">>, <<>>}}
\* the files setup_choose_license looks for
LicenseFile == Path(".", "license.txt")
LicensePaths == {Path(".", "LICENSE"), Path(".", "LICENCE"), LicenseFile}
Paths == CMakePaths \cup RegistrationPaths \cup BlockPaths \cup LicensePaths

\* os.path.isfile(path)
IsFile(fs, path) == fs[path] # Absent

\* open(path).read() of a license file: its text
Read(fs, path) == fs[path][1]

\* an option that was not given
None == <<"None">>

\* Templates['defaultlicense']
DefaultLicense == "(default license)"

\* a setup_choose_license that looks for LICENCE before LICENSE
ChooseLicenceFirst(license_file, fs) ==
  IF license_file # None /\ IsFile(fs, license_file) THEN Read(fs, license_file)
  ELSE IF IsFile(fs, Path(".", "LICENCE")) THEN Read(fs, Path(".", "LICENCE"))
  ELSE IF IsFile(fs, Path(".", "LICENSE")) THEN Read(fs, Path(".", "LICENSE"))
  ELSE DefaultLicense

\* ModToolAdd.setup_choose_license
ChooseLicense(license_file, fs) ==
  IF license_file # None /\ IsFile(fs, license_file) THEN Read(fs, license_file)
  ELSE IF IsFile(fs, Path(".", "LICENSE")) THEN Read(fs, Path(".", "LICENSE"))
  ELSE IF IsFile(fs, Path(".", "LICENCE")) THEN Read(fs, Path(".", "LICENCE"))
  ELSE DefaultLicense

\* setup's loop on raw_input("Enter code type: "): the first line typed that
\* is a block type, "EOF" when the input ends before one is
RECURSIVE EnterCodeType(_)
EnterCodeType(typed) ==
  IF typed = <<>> THEN "EOF"
  ELSE IF Head(typed) \in BlockTypes THEN Head(typed)
  ELSE EnterCodeType(Tail(typed))

\* a setup that takes 'source' for 'sync' and leaves 'sink'
RemapSourceOnly(blocktype) ==
  IF blocktype = "source" THEN "sync" ELSE blocktype

\* setup's last lines: 'source' and 'sink' become 'sync'
RemapSourceSink(blocktype) ==
  IF blocktype = "source" THEN "sync"
  ELSE IF blocktype = "sink" THEN "sync"
  ELSE blocktype

\* re.match('[a-zA-Z0-9_]+', blockname)
BlockNameMatches(blockname) ==
  MatchAt(Plus({"a", "b", "x", "D", "_", "1"}), blockname, 1).ok

\* the two copies of the program
Programs == {"gr_modtool.py", "src/src"}

\* self._info as passed to the renderer: **self._info
ContextOf(i) ==
  [modname |-> "mod", blockname |-> Str(i.blockname),
   includedir |-> "include/mod", inputsig |-> i.inputsig,
   outputsig |-> i.outputsig, blocktype |-> i.blocktype,
   fullblockname |-> "mod_" \o Str(i.blockname),
   license |-> i.license, arglist |-> i.arglist]

\* the renderer of each copy: get_template, self.tpl.get_template
RenderOf(program, tpl, ctx) ==
  IF program = "gr_modtool.py" THEN GetTemplate(tpl, ctx)
  ELSE CodeGeneratorGetTemplate(tpl, ctx)

\* A run is a fold over a record w: the files (fs), the file operations so
\* far (trace), the calls of the renderer so far (renders) and the
\* exception that ended the run (raised, "" while it goes on).  A tool t is
\* the command object: program, options, has_subdirs, info.
Running(w) == w.raised = ""

\* ModToolAdd._write_tpl: open(path, 'w') creates or truncates the file,
\* then the template is rendered, then the text is written
WriteTpl(w, t, tpl, path) ==
  IF ~t.has_subdirs[Dir(path)] THEN [w EXCEPT !.raised = "IOError"]
  ELSE LET r == RenderOf(t.program, tpl, ContextOf(t.info))
       IN [w EXCEPT !.fs[path] = r.text,
                    !.trace = Append(@, [op |-> "write", path |-> path,
                                         refers |-> path]),
                    !.renders = Append(@, [tpl |-> tpl,
                                           blocktype |-> t.info.blocktype,
                                           ok |-> r.ok]),
                    !.raised = r.exc]

\* an edit that registers value in the file at path: CMakeFileEditor's
\* append_value and write, append_re_line_sequence, open(path, 'a').write;
\* refers is the block file the value names
Register(w, path, value, refers) ==
  IF ~IsFile(w.fs, path) THEN [w EXCEPT !.raised = "IOError"]
  ELSE [w EXCEPT !.fs[path] = Append(@, value),
                 !.trace = Append(@, [op |-> "edit", path |-> path,
                                      refers |-> refers])]

\* the block types with a C++ implementation in lib/
CppBlockTypes == {"source", "sink", "sync", "decimator", "interpolator",
                  "general", "hiercpp"}

\* The file operations of run, in the order of the code: a _write_tpl, an
\* edit that registers a value in a file, a statement that raises.  Which
\* operations a run consists of depends on the command object t and on the
\* files that are there before the run, not on what the run has written.
Write(tpl, path) ==
  [op |-> "write", tpl |-> tpl, path |-> path, value |-> "", refers |-> path]
Edit(path, value, refers) ==
  [op |-> "edit", tpl |-> "", path |-> path, value |-> value, refers |-> refers]
Raise(exc) ==
  [op |-> "raise", tpl |-> "", path |-> <<>>, value |-> exc, refers |-> <<>>]

\* ModToolAdd._run_lib
RunLib(t) ==
  LET name == Str(t.info.blockname)
      cpp == t.info.blocktype \in CppBlockTypes
      fname_cc == IF cpp THEN name \o "_impl.cc" ELSE name \o ".cc"
      fname_h == name \o ".h"
      files == IF cpp
               THEN <<Write("block_impl_h", Path("lib", name \o "_impl.h")),
                      Write("block_impl_cpp", Path("lib", fname_cc)),
                      Write("block_def_h", Path("include", fname_h))>>
               ELSE IF t.info.blocktype = "noblock"
               THEN <<Write("noblock_h", Path("include", fname_h)),
                      Write("noblock_cpp", Path("lib", fname_cc))>>
               ELSE <<>>
      cmake == IF ~t.options.skip_cmakefiles
               THEN <<Edit(Path("lib", "CMakeLists.txt"), fname_cc,
                           Path("lib", fname_cc)),
                      Edit(Path("include", "CMakeLists.txt"), fname_h,
                           Path("include", fname_h))>>
               ELSE <<>>
      qa == <<Write("qa_cpp", Path("lib", "qa_" \o name \o ".cc")),
              Write("qa_h", Path("lib", "qa_" \o name \o ".h"))>>
      qa_cmake == IF ~t.options.skip_cmakefiles
                  THEN <<Edit(Path("lib", "CMakeLists.txt"), "qa_" \o name \o ".cc",
                              Path("lib", "qa_" \o name \o ".cc")),
                         Edit(Path("lib", "qa_mod.cc"), "#include qa_" \o name \o ".h",
                              Path("lib", "qa_" \o name \o ".h")),
                         Edit(Path("lib", "qa_mod.cc"), "addTest qa_" \o name,
                              Path("lib", "qa_" \o name \o ".h"))>>
                  ELSE <<>>
  IN files \o cmake \o (IF ~t.info.add_cc_qa THEN <<>> ELSE qa \o qa_cmake)

\* ModToolAdd._run_swig; self._file exists in gr_modtool.py only
RunSwig(t, fs) ==
  LET name == Str(t.info.blockname)
  IN IF ~IsFile(fs, MainSwigFile) THEN <<>>
     ELSE IF t.program # "gr_modtool.py" THEN <<Raise("AttributeError")>>
     ELSE <<Edit(MainSwigFile, "#include " \o name \o ".h",
                 Path("include", name \o ".h")),
            Edit(MainSwigFile, "GR_SWIG_BLOCK_MAGIC2 " \o name,
                 Path("include", name \o ".h"))>>

\* ModToolAdd._run_python_qa
RunPythonQa(t) ==
  LET name == Str(t.info.blockname)
  IN <<Write("qa_python", Path("python", "qa_" \o name \o ".py")),
       Edit(Path("python", "CMakeLists.txt"), "GR_ADD_TEST qa_" \o name,
            Path("python", "qa_" \o name \o ".py"))>>

\* ModToolAdd._run_python_hierblock
RunPythonHierblock(t) ==
  LET name == Str(t.info.blockname)
  IN <<Write("hier_python", Path("python", name \o ".py")),
       Edit(Path("python", "CMakeLists.txt"), name \o ".py",
            Path("python", name \o ".py")),
       Edit(Path("python", "__init__.py"), "from " \o name \o " import *",
            Path("python", name \o ".py"))>>

\* ModToolAdd._run_grc
RunGrc(t) ==
  LET fname_grc == "mod_" \o Str(t.info.blockname) \o ".xml"
  IN <<Write("grc_xml", Path("grc", fname_grc)),
       Edit(Path("grc", "CMakeLists.txt"), fname_grc, Path("grc", fname_grc))>>

\* ModToolAdd.run: the operations of its steps, one after the other
Run(t, fs) ==
  LET has_swig == /\ t.info.blocktype \in CppBlockTypes
                  /\ t.has_subdirs["swig"]
                  /\ ~t.options.skip["swig"]
  IN (IF t.info.blocktype # "hierpython" /\ ~t.options.skip["lib"]
      THEN RunLib(t) ELSE <<>>)
     \o (IF has_swig THEN RunSwig(t, fs) ELSE <<>>)
     \o (IF t.info.add_py_qa THEN RunPythonQa(t) ELSE <<>>)
     \o (IF t.info.blocktype = "hierpython" THEN RunPythonHierblock(t) ELSE <<>>)
     \o (IF /\ ~t.options.skip["grc"]
            /\ t.has_subdirs["grc"]
            /\ (t.info.blocktype = "hierpython" \/ has_swig)
         THEN RunGrc(t) ELSE <<>>)

\* the operations carried out in order, up to the first that raises
RECURSIVE Execute(_, _, _)
Execute(w, t, ops) ==
  IF ops = <<>> \/ ~Running(w) THEN w
  ELSE LET o == Head(ops)
       IN Execute(IF o.op = "write" THEN WriteTpl(w, t, o.tpl, o.path)
                  ELSE IF o.op = "edit" THEN Register(w, o.path, o.value, o.refers)
                  ELSE [w EXCEPT !.raised = o.value],
                  t, Tail(ops))

\* self._info, _add_cc_qa and _add_py_qa after ModToolAdd.__init__
InitialInfo ==
  [blocktype |-> "None", blockname |-> <<>>, license |-> "", arglist |-> "",
   inputsig |-> "<+MIN_IN+>, <+MAX_IN+>, sizeof (<+float+>)",
   outputsig |-> "<+MIN_OUT+>, <+MAX_OUT+>, sizeof (<+float+>)",
   add_cc_qa |-> FALSE, add_py_qa |-> FALSE]

\* str.lower() of an answer to a [Y/n] question
Lower(answer) == IF answer = "N" THEN "n" ELSE IF answer = "Y" THEN "y" ELSE answer

\* the last line typed, "None" when nothing was
LastTyped(typed) == IF typed = <<>> THEN "None" ELSE typed[Len(typed)]

\* how setup ends: the next step of the command, and the exception if one
\* was raised
SetupEnds(i, next, exc) == [info |-> i, pc |-> next, raised |-> exc]

\* ModToolAdd.setup after ModTool.setup, on a module directory: typed are the
\* lines typed at "Enter code type: ", name the block name given or typed,
\* py and cc the answers to the QA questions
Setup(t, fs, typed, name, arglist, py, cc) ==
  LET opts == t.options
      blocktype == IF opts.block_type # "None" THEN opts.block_type
                   ELSE EnterCodeType(typed)
      i1 == [t.info EXCEPT !.blocktype = blocktype]
      i2 == [i1 EXCEPT !.blockname = name]
      i3 == [i2 EXCEPT !.license = ChooseLicense(opts.license_file, fs),
                       !.arglist = arglist]
      i4 == IF ~(i3.blocktype = "noblock" \/ opts.skip["python"])
            THEN [i3 EXCEPT !.add_py_qa =
                    IF opts.add_python_qa # "None" THEN opts.add_python_qa = "True"
                    ELSE Lower(py) # "n"]
            ELSE i3
      i5 == IF ~(i4.blocktype = "hierpython" \/ opts.skip["lib"])
            THEN [i4 EXCEPT !.add_cc_qa =
                    IF opts.add_cpp_qa # "None" THEN opts.add_cpp_qa = "True"
                    ELSE Lower(cc) # "n"]
            ELSE i4
      i6 == [i5 EXCEPT !.blocktype = RemapSourceSink(@),
                       !.inputsig = IF i5.blocktype = "source" THEN "0, 0, 0" ELSE @,
                       !.outputsig = IF i5.blocktype = "sink" THEN "0, 0, 0" ELSE @]
  IN IF t.program = "gr_modtool.py" /\ ~IsFile(fs, MainSwigFile)
     THEN SetupEnds(t.info, "raised", "AttributeError")
     ELSE IF blocktype = "EOF"
     THEN SetupEnds([t.info EXCEPT !.blocktype = LastTyped(typed)], "raised",
                    "EOFError")
     ELSE IF \/ ~t.has_subdirs["lib"] /\ blocktype # "hierpython"
             \/ ~t.has_subdirs["python"] /\ blocktype = "hierpython"
     THEN SetupEnds(i1, "exit 1", "")
     ELSE IF ~BlockNameMatches(name) THEN SetupEnds(i2, "exit 2", "")
     ELSE SetupEnds(i6, "run", "")

(***************************************************************************)
(* The remove and disable commands: ModToolRemove.run and                  *)
(* ModToolDisable.run with their confirmation prompts.  A CMakeLists.txt   *)
(* is the set of the file names it lists, a registration file (the main    *)
(* swig file, python/__init__.py, lib/qa_<modname>.cc) the set of the      *)
(* names it mentions; names commented out are kept apart.                  *)
(***************************************************************************)
\* the files of the module that a pattern can match, in the order of the
\* directory listing
Candidates ==
  [d \in Subdirs |->
     CASE d = "lib" -> <<"b_impl.cc", "qa_b.cc", "qa_b.h">>
       [] d = "include" -> <<"b.h">>
       [] d = "python" -> <<"qa_b.py">>
       [] d = "grc" -> <<"mod_b.xml">>
       [] OTHER -> <<>>]

\* filename[:2] == 'qa', and the extension of os.path.splitext
IsQa(f) == f \in {"qa_b.cc", "qa_b.h", "qa_b.py"}
Ext(f) ==
  CASE f \in {"b_impl.cc", "qa_b.cc"} -> ".cc"
    [] f \in {"qa_b.h", "b.h"} -> ".h"
    [] f = "qa_b.py" -> ".py"
    [] OTHER -> ".xml"

\* A run is a fold over a record s: the files on disk (files), the names
\* each CMakeLists.txt on disk lists (cmake) and has commented out
\* (cmake_off), the same for the registration files (regs, regs_off), the
\* answers not yet read (answers), the prompts so far (asked), the names
\* appended to a files_deleted list so far (deleted), the yes flag and how
\* the run ended (outcome, "" while it goes on).
Going(s) == s.outcome = ""

\* a prompt whose answer 'a' holds for the next file only
ConfirmAllOnce(s, f, persist) ==
  IF s.yes THEN [s |-> s, verdict |-> "do"]
  ELSE IF s.answers = <<>>
  THEN [s |-> [s EXCEPT !.outcome = "EOFError"], verdict |-> "stop"]
  ELSE LET ans == Lower(Head(s.answers))
           s1 == [s EXCEPT !.answers = Tail(@),
                           !.asked = Append(@, [file |-> f, ans |-> ans])]
       IN IF ans = "q"
          THEN [s |-> [s1 EXCEPT !.outcome = "sys.exit(0)"], verdict |-> "stop"]
          ELSE IF ans = "n" THEN [s |-> s1, verdict |-> "skip"]
          ELSE [s |-> s1, verdict |-> "do"]

\* raw_input("Really delete %s? [Y/n/a/q]: ").lower().strip() and the three
\* tests on the answer; verdict is what the loop does with the file
Confirm(s, f, persist) ==
  IF s.yes \/ s.local_yes THEN [s |-> s, verdict |-> "do"]
  ELSE IF s.answers = <<>>
  THEN [s |-> [s EXCEPT !.outcome = "EOFError"], verdict |-> "stop"]
  ELSE LET ans == Lower(Head(s.answers))
           s1 == [s EXCEPT !.answers = Tail(@),
                           !.asked = Append(@, [file |-> f, ans |-> ans])]
       IN IF ans = "a"
          THEN [s |-> [s1 EXCEPT !.local_yes = TRUE,
                                 !.yes = IF persist THEN TRUE ELSE @],
                verdict |-> "do"]
          ELSE IF ans = "q"
          THEN [s |-> [s1 EXCEPT !.outcome = "sys.exit(0)"], verdict |-> "stop"]
          ELSE IF ans = "n" THEN [s |-> s1, verdict |-> "skip"]
          ELSE [s |-> s1, verdict |-> "do"]

\* a use of self._file: gr_modtool.py sets it up, the ModTool of src/src
\* has no such attribute
UseFile(s, prog) ==
  IF Going(s) /\ prog # "gr_modtool.py"
  THEN [s EXCEPT !.outcome = "AttributeError"] ELSE s

\* _run_subdir's loop over files_filt: buf is the editor's buffer, deleted
\* the files deleted so far
RECURSIVE DeleteEach(_, _, _, _, _, _)
DeleteEach(s, prog, subdir, todo, buf, deleted) ==
  IF ~Going(s) \/ todo = <<>> THEN [s |-> s, buf |-> buf, deleted |-> deleted]
  ELSE LET f == Head(todo)
           c == Confirm(s, f, TRUE)
           s1 == [c.s EXCEPT !.deleted = Append(@, f),
                             !.files = @ \ {Path(subdir, f)}]
           s2 == IF subdir = "lib" /\ IsQa(f) /\ Ext(f) = ".h"
                 THEN LET u == UseFile(s1, prog)
                      IN IF Going(u) THEN [u EXCEPT !.regs = @ \ {<<"qalib", f>>}]
                         ELSE u
                 ELSE s1
       IN IF c.verdict = "stop" THEN [s |-> c.s, buf |-> buf, deleted |-> deleted]
          ELSE IF c.verdict = "skip"
          THEN DeleteEach(c.s, prog, subdir, Tail(todo), buf, deleted)
          ELSE DeleteEach(s2, prog, subdir, Tail(todo), buf \ {f},
                          Append(deleted, f))

\* ModToolRemove._run_subdir: the files deleted; the buffer is written
\* after the loop
RunSubdir(s, prog, matched, subdir) ==
  IF ~Going(s) \/ matched[subdir] = <<>> THEN [s |-> s, deleted |-> <<>>]
  ELSE LET r == DeleteEach([s EXCEPT !.local_yes = s.yes], prog, subdir,
                           matched[subdir], s.cmake[subdir], <<>>)
       IN [s |-> IF Going(r.s) THEN [r.s EXCEPT !.cmake[subdir] = r.buf] ELSE r.s,
           deleted |-> r.deleted]

\* remove_pattern_from_file(file, ...) for every file name of names
Unregister(s, file, names) ==
  IF ~Going(s) THEN s
  ELSE [s EXCEPT !.regs = @ \ {<<file, names[i]>> : i \in 1..Len(names)}]

\* ModToolRemove.run
RemoveRun(s, prog, matched) ==
  LET lib == RunSubdir(s, prog, matched, "lib")
      incl == RunSubdir(lib.s, prog, matched, "include")
      swig == RunSubdir(incl.s, prog, matched, "swig")
      s1 == Unregister(UseFile(swig.s, prog), "swig", incl.deleted \o swig.deleted)
      py == RunSubdir(s1, prog, matched, "python")
      s2 == Unregister(IF py.deleted # <<>> THEN UseFile(py.s, prog) ELSE py.s,
                       "pyinit", py.deleted)
  IN RunSubdir(s2, prog, matched, "grc").s

\* the special_treatments of ModToolDisable.run for one file, then
\* disable_file unless a treatment says the file is done; buf is the
\* editor's buffer as the pair of the names listed and those commented out
Treat(s, subdir, f, buf) ==
  LET off == [buf EXCEPT !.on = @ \ {f}, !.off = @ \cup {f}]
      mark(file) == [s EXCEPT !.regs = @ \ {<<file, f>>},
                              !.regs_off = @ \cup ({<<file, f>>} \cap s.regs)]
  IN IF subdir = "python" /\ IsQa(f) THEN [s |-> s, buf |-> off]
     ELSE IF subdir = "python" THEN [s |-> mark("pyinit"), buf |-> off]
     ELSE IF subdir = "lib" /\ IsQa(f) /\ Ext(f) = ".cc"
     THEN [s |-> mark("qalib"), buf |-> off]
     ELSE IF subdir = "include" /\ Ext(f) = ".h" THEN [s |-> mark("swig"), buf |-> off]
     ELSE IF subdir = "swig" THEN [s |-> mark("swig"), buf |-> off]
     ELSE [s |-> s, buf |-> off]

\* ModToolDisable.run's loop over the file names of one CMakeLists.txt
RECURSIVE DisableEach(_, _, _, _)
DisableEach(s, subdir, todo, buf) ==
  IF ~Going(s) \/ todo = <<>> THEN [s |-> s, buf |-> buf]
  ELSE LET f == Head(todo)
           c == Confirm(s, f, FALSE)
           t == Treat(c.s, subdir, f, buf)
       IN IF c.verdict = "stop" THEN [s |-> c.s, buf |-> buf]
          ELSE IF c.verdict = "skip" THEN DisableEach(c.s, subdir, Tail(todo), buf)
          ELSE DisableEach(t.s, subdir, Tail(todo), t.buf)

\* ModToolDisable.run: every subdirectory in the order of self._subdirs,
\* the buffer written after each
RECURSIVE DisableRun(_, _, _)
DisableRun(s, matched, subdirs) ==
  IF ~Going(s) \/ subdirs = <<>> THEN s
  ELSE LET d == Head(subdirs)
           r == DisableEach([s EXCEPT !.local_yes = s.yes], d, matched[d],
                            [on |-> s.cmake[d], off |-> s.cmake_off[d]])
       IN DisableRun(IF Going(r.s)
                     THEN [r.s EXCEPT !.cmake[d] = r.buf.on,
                                      !.cmake_off[d] = r.buf.off]
                     ELSE r.s,
                     matched, Tail(subdirs))

\* an exit status that is 0 only when run returns
ExitStatusOfReturnOnly(outcome) ==
  CASE outcome = "returned" -> 0
    [] OTHER -> 1

\* the exit status of the process: 0 when run returns, the argument of
\* sys.exit, 1 for an exception that nothing catches
ExitStatus(outcome) ==
  CASE outcome = "returned" -> 0
    [] outcome = "sys.exit(0)" -> 0
    [] outcome = "sys.exit(2)" -> 2
    [] OTHER -> 1

(***************************************************************************)
(* The start of a command: ModTool.setup with _check_directory, and the    *)
(* info command, which looks for the module itself.  A directory is a      *)
(* record: whether it can be listed and entered, what CMakeLists.txt it    *)
(* holds, the directories inside it, and whether swig/ holds a main swig   *)
(* file.                                                                   *)
(***************************************************************************)
\* the CMakeLists.txt of a directory: none, a file without GNU Radio marker,
\* a file with the marker find_package(GnuradioCore) or GR_REGISTER_COMPONENT
\* in which get_modname finds no name, and one in which it finds the name
CMakeListsKinds == {"none", "plain", "marker", "named marker"}
HasMarker(dir) == dir.cmakelists \in {"marker", "named marker"}

\* self._has_subdirs.values(): the list of the five flags
SubdirFlags(has) == <<has["lib"], has["include"], has["python"], has["swig"], has["grc"]>>

\* a _check_directory that takes any CMakeLists.txt for a module's
CheckDirectoryAnyCMakeLists(dir) ==
  IF ~dir.readable
  THEN [ok |-> FALSE, has_subdirs |-> [d \in Subdirs |-> FALSE], skipped |-> {}]
  ELSE [ok |-> dir.cmakelists # "none" /\ Len(SubdirFlags([d \in Subdirs |-> d \in dir.subdirs])) > 0,
        has_subdirs |-> [d \in Subdirs |-> d \in dir.subdirs],
        skipped |-> dir.subdirs \ Subdirs]

\* ModTool._check_directory: ok is what it returns, has_subdirs what it
\* leaves in self._has_subdirs, skipped the other directories, which it
\* enters in self._skip_subdirs.  'has_makefile and values' is values when
\* has_makefile holds, and a list is true when it is not empty.
CheckDirectory(dir) ==
  IF ~dir.readable
  THEN [ok |-> FALSE, has_subdirs |-> [d \in Subdirs |-> FALSE], skipped |-> {}]
  ELSE [ok |-> HasMarker(dir) /\ Len(SubdirFlags([d \in Subdirs |-> d \in dir.subdirs])) > 0,
        has_subdirs |-> [d \in Subdirs |-> d \in dir.subdirs],
        skipped |-> dir.subdirs \ Subdirs]

\* ModTool.setup on the directory dir, by the copy prog of the program:
\* how it ends ("proceeds" when it returns to the command's own setup)
ModToolSetup(prog, dir) ==
  LET c == CheckDirectory(dir)
  IN [check |-> c,
      outcome |-> IF ~c.ok THEN "sys.exit(1)"
                  ELSE IF dir.cmakelists # "named marker" THEN "AttributeError"
                  ELSE IF prog = "gr_modtool.py" /\ ~dir.swigfile THEN "AttributeError"
                  ELSE "proceeds"]

\* ModToolInfo._get_base_dir: the directory given, else the one above it
\* (two above when the one above is called include), else None
GetBaseDir(dir, up_dir) ==
  IF CheckDirectory(dir).ok THEN <<dir>>
  ELSE IF CheckDirectory(up_dir).ok THEN <<up_dir>>
  ELSE <<>>

\* ModToolInfo.run: what it prints first and how it ends
InfoRun(dir, up_dir) ==
  LET base_dir == GetBaseDir(dir, up_dir)
  IN IF base_dir = <<>>
     THEN [printed |-> "No module found.", outcome |-> "sys.exit(0)"]
     ELSE IF base_dir[1].cmakelists # "named marker"
     THEN [printed |-> "", outcome |-> "AttributeError"]
     ELSE [printed |-> "Base directory", outcome |-> "returned"]

(***************************************************************************)
(* The newmod command.  A command line a holds the option -n (module_name), *)
(* the positional arguments (args), the option -d (directory) and the line  *)
(* typed at the prompt; fs holds what os.stat finds at each path, and       *)
(* whether a directory can be made there.                                   *)
(***************************************************************************)
\* the module names given: an identifier, an identifier followed by another
\* character, another character alone, the empty name
ModuleNames == {<<"x">>, <<"x", "!">>, <<"!">>, <<>>}

\* self._info['modname']: -n, else the argument after the command, else
\* what is typed at 'Name of the new module: '
ModuleName(a) ==
  IF a.module_name # None THEN a.module_name
  ELSE IF Len(a.args) >= 2 THEN a.args[2]
  ELSE a.typed

\* self._dir: the option -d, './gr-%s' % modname when it is '.'
TargetDir(directory, modname) ==
  IF directory = "." THEN <<"./gr-", modname>> ELSE <<directory, <<>>>>

\* a setup that does not look whether the directory exists
NewmodSetupWithoutStat(a, fs) ==
  LET modname == ModuleName(a)
      dir == TargetDir(a.directory, modname)
  IN IF ~BlockNameMatches(modname)
     THEN [modname |-> modname, dir |-> <<>>, outcome |-> "sys.exit(2)"]
     ELSE [modname |-> modname, dir |-> dir, outcome |-> "proceeds"]

\* ModToolNewModule.setup
NewmodSetup(a, fs) ==
  LET modname == ModuleName(a)
      dir == TargetDir(a.directory, modname)
  IN IF ~BlockNameMatches(modname)
     THEN [modname |-> modname, dir |-> <<>>, outcome |-> "sys.exit(2)"]
     ELSE IF fs.entries[dir] # "absent"
     THEN [modname |-> modname, dir |-> dir, outcome |-> "sys.exit(2)"]
     ELSE [modname |-> modname, dir |-> dir, outcome |-> "proceeds"]

\* ModToolNewModule.run: os.mkdir raises OSError when the path exists or
\* the directory cannot be made; else the skeleton is unpacked in the new
\* directory and its files are rewritten and renamed there
NewmodRun(m, fs) ==
  IF fs.entries[m.dir] # "absent" \/ ~fs.writable
  THEN [fs |-> fs, outcome |-> "sys.exit(2)"]
  ELSE [fs |-> [fs EXCEPT !.entries[m.dir] = "module " \o Str(m.modname)],
        outcome |-> "returned"]

(***************************************************************************)
(* The editor as a state machine.                                          *)
(***************************************************************************)
VARIABLES
  disk,        \* the content of the file named self.filename
  cfile,       \* self.cfile, the buffer
  separator,   \* self.separator
  orig,        \* history: the content __init__ read
  log,         \* history: the calls made so far, oldest first
  string,      \* the argument list in hand
  results,     \* history: the calls of the argument-list functions
  renderer,    \* which get_template is called: gr_modtool.py's or CodeGenerator's
  tpl_id,      \* get_template's tpl_id
  context,     \* get_template's kwargs
  rendered,    \* what get_template returned or raised, None before the call
  program,     \* the copy of the program that runs the add command
  options,     \* self.options
  has_subdirs, \* self._has_subdirs
  tree,        \* the files of the module directory, by path
  info,        \* self._info, with self._add_py_qa and self._add_cc_qa
  pc,          \* the command's next step, or how it ended
  raised,      \* the exception that ended the command, "" if none
  renders,     \* history: the calls of the renderer, oldest first
  trace,       \* history: the file operations of run, oldest first
  tool,        \* the remove or disable command: program, name, files matched
  session,     \* the module on disk, the answers to come, the prompts so far
  exit_status, \* <<>> while the command runs, then the status of the process
  argv,        \* the command line: the copy of the program, the command, its arguments
  fsys,        \* the directories and files the command looks at and creates
  modtool,     \* what the command object holds after its setup
  outcome      \* how the command ended, "" while it has not

editorVars == <<disk, cfile, separator, orig, log>>
argVars == <<string, results>>
renderVars == <<renderer, tpl_id, context, rendered>>
addVars == <<program, options, has_subdirs, tree, info, pc, raised, renders, trace>>
confirmVars == <<tool, session, exit_status>>
startVars == <<argv, fsys, modtool, outcome>>
vars == <<editorVars, argVars, renderVars, addVars, confirmVars, startVars>>

\* what a CMakeFileEditor call leaves alone
notEditor == <<argVars, renderVars, addVars, confirmVars, startVars>>
\* what a call of an argument-list function leaves alone
notArgs == <<editorVars, renderVars, addVars, confirmVars, startVars>>
\* what a call of the renderer leaves alone
notRender == <<editorVars, argVars, addVars, confirmVars, startVars>>

\* no argument list in hand
IdleArgs == string = <<>> /\ results = <<>>
\* no CMakeFileEditor
IdleEditor ==
  /\ disk = <<>> /\ cfile = <<>> /\ orig = <<>> /\ log = <<>>
  /\ separator = <<" ">>
\* what a step of the add command leaves alone
notAdd == <<editorVars, argVars, renderVars, confirmVars, startVars>>
\* what the start of a command leaves alone
notStart == <<editorVars, argVars, renderVars, addVars, confirmVars>>
\* what a run of remove or disable leaves alone
notConfirm == <<editorVars, argVars, renderVars, addVars, startVars>>

\* no call of the renderer
IdleRender ==
  /\ renderer = "none" /\ tpl_id = "" /\ context = NoContext
  /\ rendered = NotRendered
\* no add command
IdleAdd ==
  /\ program = "none" /\ options = <<>> /\ has_subdirs = <<>> /\ tree = <<>>
  /\ info = <<>> /\ pc = "none" /\ raised = "" /\ renders = <<>> /\ trace = <<>>
\* no remove or disable command
IdleConfirm == tool = <<>> /\ session = <<>> /\ exit_status = <<>>
\* no command at its start
IdleStart == argv = <<>> /\ fsys = <<>> /\ modtool = <<>> /\ outcome = ""

\* bounds of the model
MaxOps == 2         \* calls per editor
MaxContent == 2     \* free characters inside the entry of an initial file
MaxPieces == 4      \* pieces of an initial file of lines
MaxParts == 2       \* parts of an initial file of any kind
MaxRun == 5         \* newlines of one run of an initial file of runs
MaxTokens == 3      \* tokens of an initial file of file names
MaxArgLen == 4      \* characters of an argument list
MaxTyped == 2       \* lines typed at "Enter code type: " that are no block type
MaxAnswers == 3     \* answers typed at the confirmation prompts

\* __init__'s defaults and the values the callers pass
DefaultSeparator == <<" ">>
NewlineSeparator == <<"\n", " ", " ", " ", " ">>
Indent == <<" ", " ", " ", " ">>
Separators == {DefaultSeparator, NewlineSeparator}

\* what the callers pass: an entry name, a file name as value, the
\* 'DESTINATION[^()]+' tail (D for DESTINATION), patterns
Entries == {<<"x">>}
Values == {<<"b">>}
NoIgnore == <<>>
DestinationTail == Rx(<<"D">>) \o Plus(ClsNotParen)
Ignores == {NoIgnore, DestinationTail}
ValuePatterns == {<<>>, <<"a">>}
LinePatterns == {<<"a">>}
CommentStrs == {<<"#">>}
FilePatterns == {<<"a">>}
Fnames == {<<"a", "b", ".", "x">>}

\* every text of at most n pieces, each piece one of toks
RECURSIVE Flatten(_)
Flatten(ss) == IF ss = <<>> THEN <<>> ELSE Head(ss) \o Flatten(Tail(ss))

Texts(toks, n) == {Flatten(t) : t \in UNION {[1..k -> toks] : k \in 0..n}}

\* what an entry of an initial file holds between its parentheses
Bodies == Texts({<<"a">>, <<" ">>, <<"\n">>}, MaxContent)

\* initial files for append_value, remove_value and get_entry_value: text
\* before the entry, the entry with its values, white space and possibly
\* a DESTINATION tail, text after it
EntryFiles ==
  {lead \o <<"x", "(">> \o body \o tail \o <<")">> \o rest :
     lead \in {<<>>, <<" ">>},
     body \in Bodies,
     tail \in {<<>>, <<"D", "a">>},
     rest \in {<<>>, <<"\n">>, <<"\n", "x", "(", "a", ")", "\n">>}}

\* initial files for delete_entry: the entry indented or not, with or
\* without a space after its name, at the end of the file, of a line, with
\* text or another entry after it
DeleteFiles ==
  {lead \o <<"x">> \o gap \o <<"(">> \o body \o <<")">> \o rest :
     lead \in {<<>>, <<" ">>, <<"a", "\n">>},
     gap \in {<<>>, <<" ">>},
     body \in Bodies,
     rest \in {<<>>, <<"\n">>, <<"a", "\n">>, <<"\n", "x", "(", "a", ")", "\n">>}}

\* initial files of plain lines and blank-line runs
LineFiles == Texts({<<"a">>, <<"b">>, <<"\n">>, <<"\n", "\n", "\n">>}, MaxPieces)

\* n newlines
Newlines(n) == [i \in 1..n |-> "\n"]

\* a file with three runs of newlines, text around each
RunBuffer(i, j, k) ==
  <<"a">> \o Newlines(i) \o <<"a">> \o Newlines(j) \o <<"b">> \o Newlines(k) \o <<"a">>

\* initial files of three runs of newlines
RunFiles == {RunBuffer(i, j, k) : i \in 1..MaxRun, j \in 1..MaxRun, k \in 1..MaxRun}

\* initial files of file names, some commented out
NameFiles ==
  Texts({<<"a", "b", ".", "x">>, <<" ">>, <<"\n">>, <<"#">>, <<"b">>}, MaxTokens)

\* initial files of any kind: an entry, a file name, white space, blank lines
AnyFiles ==
  Texts({<<"x", "(", "a", " ", "b", ")">>, <<"a", "b", ".", "x">>,
         <<" ">>, <<"\n">>, <<"\n", "\n", "\n">>}, MaxParts)

\* the strings of at most n characters
Strings(chars, n) == UNION {[1..k -> chars] : k \in 0..n}

\* argument lists
ArgLists == Strings(ArgChars, MaxArgLen)

\* the keys of self._info that the templates use
ContextKeys == {"license", "arglist", "blockname", "modname", "blocktype",
                "inputsig", "outputsig"}

\* a context with every key, of the given block type
FullContext(blocktype) ==
  [k \in ContextKeys |-> IF k = "blocktype" THEN blocktype ELSE "<" \o k \o ">"]

\* contexts: of every block type and of one that is none, with any keys left out
Contexts ==
  {[k \in keys |-> FullContext(blocktype)[k]] :
     blocktype \in BlockTypes \cup {"nosuchtype"}, keys \in SUBSET ContextKeys}

\* template keys: those of the registries, and some that are in neither
TemplateIds == SplitTemplates \cup {"nosuchtemplate", "license", "blocktype"}

\* a call's record in the log
Call(op, entry, value, ignore) ==
  [op |-> op, entry |-> entry, value |-> value, ignore |-> ignore,
   pre |-> cfile, post |-> cfile,
   found |-> FALSE, val |-> <<>>, names |-> <<>>, nsubs |-> 0, warned |-> FALSE]

\* __init__: self.cfile = open(filename, 'r').read()
InitWith(files, seps) ==
  /\ disk \in files
  /\ cfile = disk
  /\ orig = disk
  /\ separator \in seps
  /\ log = <<>>
  /\ IdleArgs /\ IdleRender /\ IdleAdd /\ IdleConfirm /\ IdleStart

Init == InitWith(AnyFiles, {DefaultSeparator})
InitEntries == InitWith(EntryFiles, Separators)
InitDelete == InitWith(DeleteFiles, {DefaultSeparator})
InitLines == InitWith(LineFiles, {DefaultSeparator})
InitRuns == InitWith(RunFiles, {DefaultSeparator})
InitNames == InitWith(NameFiles, {DefaultSeparator})

\* a template key and a context to render, no call made yet
InitRender ==
  /\ renderer = "none"
  /\ tpl_id \in TemplateIds
  /\ context \in Contexts
  /\ rendered = NotRendered
  /\ IdleEditor /\ IdleArgs /\ IdleAdd /\ IdleConfirm /\ IdleStart

\* get_template(tpl_id, **context) of gr_modtool.py
get_template ==
  /\ renderer = "none"
  /\ renderer' = "get_template"
  /\ rendered' = GetTemplate(tpl_id, context)
  /\ UNCHANGED <<tpl_id, context>>
  /\ UNCHANGED notRender

\* CodeGenerator().get_template(tpl_id, **context) of code_generator.py
CodeGenerator_get_template ==
  /\ renderer = "none"
  /\ renderer' = "CodeGenerator.get_template"
  /\ rendered' = CodeGeneratorGetTemplate(tpl_id, context)
  /\ UNCHANGED <<tpl_id, context>>
  /\ UNCHANGED notRender

\* an argument list in hand, no editor
InitArgs ==
  /\ string \in ArgLists
  /\ results = <<>>
  /\ IdleEditor /\ IdleRender /\ IdleAdd /\ IdleConfirm /\ IdleStart

\* strip_default_values(string)
strip_default_values ==
  /\ Len(results) < MaxOps
  /\ string' = StripDefaultValues(string)
  /\ results' = Append(results, [fn |-> "strip_default_values",
                                 arg |-> string, out |-> string'])
  /\ UNCHANGED notArgs

\* strip_arg_types(string)
strip_arg_types ==
  /\ Len(results) < MaxOps
  /\ string' = StripArgTypes(string)
  /\ results' = Append(results, [fn |-> "strip_arg_types",
                                 arg |-> string, out |-> string'])
  /\ UNCHANGED notArgs

get_entry_value(entry, to_ignore) ==
  /\ Len(log) < MaxOps
  /\ LET r == GetEntryValue(cfile, entry, to_ignore)
     IN log' = Append(log, [Call("get_entry_value", entry, <<>>, to_ignore)
                              EXCEPT !.found = r.found, !.val = r.v])
  /\ UNCHANGED <<disk, cfile, separator, orig>>
  /\ UNCHANGED notEditor

\* mutant: append_value that saves the file itself
append_value_saving(entry, value, to_ignore) ==
  /\ Len(log) < MaxOps
  /\ cfile' = AppendValue(cfile, separator, entry, value, to_ignore)
  /\ disk' = cfile'
  /\ log' = Append(log, [Call("append_value", entry, value, to_ignore)
                           EXCEPT !.post = cfile'])
  /\ UNCHANGED <<separator, orig>>
  /\ UNCHANGED notEditor

append_value(entry, value, to_ignore) ==
  /\ Len(log) < MaxOps
  /\ cfile' = AppendValue(cfile, separator, entry, value, to_ignore)
  /\ log' = Append(log, [Call("append_value", entry, value, to_ignore)
                           EXCEPT !.post = cfile'])
  /\ UNCHANGED <<disk, separator, orig>>
  /\ UNCHANGED notEditor

remove_value(entry, value, to_ignore) ==
  /\ Len(log) < MaxOps
  /\ cfile' = RemoveValue(cfile, entry, value, to_ignore)
  /\ log' = Append(log, [Call("remove_value", entry, value, to_ignore)
                           EXCEPT !.post = cfile'])
  /\ UNCHANGED <<disk, separator, orig>>
  /\ UNCHANGED notEditor

delete_entry(entry, value_pattern) ==
  /\ Len(log) < MaxOps
  /\ cfile' = DeleteEntry(cfile, entry, value_pattern)
  /\ log' = Append(log, [Call("delete_entry", entry, value_pattern, NoIgnore)
                           EXCEPT !.post = cfile'])
  /\ UNCHANGED <<disk, separator, orig>>
  /\ UNCHANGED notEditor

\* open(self.filename, 'w').write(self.cfile)
write ==
  /\ Len(log) < MaxOps
  /\ disk' = cfile
  /\ log' = Append(log, Call("write", <<>>, <<>>, NoIgnore))
  /\ UNCHANGED <<cfile, separator, orig>>
  /\ UNCHANGED notEditor

remove_double_newlines ==
  /\ Len(log) < MaxOps
  /\ cfile' = RemoveDoubleNewlines(cfile)
  /\ log' = Append(log, [Call("remove_double_newlines", <<>>, <<>>, NoIgnore)
                           EXCEPT !.post = cfile'])
  /\ UNCHANGED <<disk, separator, orig>>
  /\ UNCHANGED notEditor

find_filenames_match(regex) ==
  /\ Len(log) < MaxOps
  /\ log' = Append(log, [Call("find_filenames_match", regex, <<>>, NoIgnore)
                           EXCEPT !.names = FindFilenamesMatch(cfile, regex)])
  /\ UNCHANGED <<disk, cfile, separator, orig>>
  /\ UNCHANGED notEditor

\* the two prints are the warnings
disable_file(fname) ==
  /\ Len(log) < MaxOps
  /\ LET r == DisableFile(cfile, Indent, fname)
     IN /\ cfile' = r.text
        /\ log' = Append(log, [Call("disable_file", fname, <<>>, NoIgnore)
                                 EXCEPT !.post = r.text, !.nsubs = r.nsubs,
                                        !.warned = DisableWarns(r.nsubs)])
  /\ UNCHANGED <<disk, separator, orig>>
  /\ UNCHANGED notEditor

comment_out_lines(pattern, comment_str) ==
  /\ Len(log) < MaxOps
  /\ cfile' = CommentOutLines(cfile, pattern, comment_str)
  /\ log' = Append(log, [Call("comment_out_lines", pattern, comment_str, NoIgnore)
                           EXCEPT !.post = cfile'])
  /\ UNCHANGED <<disk, separator, orig>>
  /\ UNCHANGED notEditor

\* append_re_line_sequence(filename, linepattern, newline) on the file
append_re_line_sequence(linepattern, newline) ==
  /\ Len(log) < MaxOps
  /\ disk' = AppendReLineSequence(disk, linepattern, newline)
  /\ log' = Append(log, [Call("append_re_line_sequence", linepattern, newline,
                              NoIgnore)
                           EXCEPT !.pre = disk, !.post = disk'])
  /\ UNCHANGED <<cfile, separator, orig>>
  /\ UNCHANGED notEditor

\* what is given on the command line: -t, --license-file,
\* --skip-cmakefiles, --add-python-qa, --add-cpp-qa, --skip-lib and the like
OptionsOf(block_types, license_files) ==
  [block_type : block_types, license_file : license_files,
   skip_cmakefiles : BOOLEAN, add_python_qa : {"None", "True"},
   add_cpp_qa : {"None", "True"}, skip : {[d \in Subdirs |-> FALSE]},
   block_name : {None}]

\* the module directories: include/ is there, the others may be missing
SubdirSets == {h \in [Subdirs -> BOOLEAN] : h["include"]}

\* the files of a module directory with the subdirectories of h, a main
\* swig file if swigfile, and the license files of licenses
InitialTree(h, swigfile, licenses) ==
  [p \in Paths |->
     IF p \in CMakePaths
     THEN IF h[Dir(p)] THEN <<"CMakeLists.txt">> ELSE Absent
     ELSE IF p = MainSwigFile
     THEN IF h["swig"] /\ swigfile THEN <<"%{">> ELSE Absent
     ELSE IF p \in RegistrationPaths
     THEN IF h[Dir(p)] THEN <<p[2]>> ELSE Absent
     ELSE IF p \in licenses THEN <<"text of " \o p[2]>>
     ELSE Absent]

\* the add command, constructed, on a module directory
InitAddOn(option_sets, license_sets, subdir_sets) ==
  /\ program \in Programs
  /\ options \in option_sets
  /\ has_subdirs \in subdir_sets
  /\ \E swigfile \in BOOLEAN, licenses \in license_sets :
       /\ (swigfile => has_subdirs["swig"])
       /\ tree = InitialTree(has_subdirs, swigfile, licenses)
  /\ info = InitialInfo
  /\ pc = "setup"
  /\ raised = ""
  /\ renders = <<>>
  /\ trace = <<>>
  /\ IdleEditor /\ IdleArgs /\ IdleRender /\ IdleConfirm /\ IdleStart

InitAddWith(block_types, license_files, license_sets, subdir_sets) ==
  InitAddOn(OptionsOf(block_types, license_files), license_sets, subdir_sets)

InitAdd ==
  InitAddWith(BlockTypes \cup {"None"}, {None}, {{Path(".", "LICENSE")}}, SubdirSets)

InitLicense ==
  InitAddWith({"None", "hierpython", "decimator"}, {None, LicenseFile},
              SUBSET LicensePaths, {[d \in Subdirs |-> TRUE]})

\* what may be typed at "Enter code type: ": lines that are no block type,
\* then a block type unless the input ends
TypedLines ==
  {[i \in 1..k |-> "x"] : k \in 0..MaxTyped}
  \cup {[i \in 1..k |-> "x"] \o <<b>> : k \in 0..MaxTyped, b \in BlockTypes}

\* the answers to a [Y/n] question
Answers == {"n", "N", "y"}

\* ModToolAdd.setup; what is typed is drawn where setup calls raw_input
setup ==
  /\ pc = "setup"
  /\ \E typed \in (IF options.block_type = "None" THEN TypedLines ELSE {<<>>}),
        name \in (IF options.block_name = None THEN BlockNameInputs
                  ELSE {options.block_name}),
        py \in (IF options.add_python_qa = "None" THEN Answers ELSE {""}),
        cc \in (IF options.add_cpp_qa = "None" THEN Answers ELSE {""}) :
       LET t == [program |-> program, options |-> options,
                 has_subdirs |-> has_subdirs, info |-> info]
           e == Setup(t, tree, typed, name, "int a", py, cc)
       IN /\ info' = e.info
          /\ pc' = e.pc
          /\ raised' = e.raised
  /\ UNCHANGED <<program, options, has_subdirs, tree, renders, trace>>
  /\ UNCHANGED notAdd

\* ModToolAdd.run
run ==
  /\ pc = "run"
  /\ LET t == [program |-> program, options |-> options,
               has_subdirs |-> has_subdirs, info |-> info]
         w == Execute([fs |-> tree, trace |-> <<>>, renders |-> <<>>, raised |-> ""],
                      t, Run(t, tree))
     IN /\ tree' = w.fs
        /\ trace' = w.trace
        /\ renders' = w.renders
        /\ raised' = w.raised
        /\ pc' = IF Running(w) THEN "returned" ELSE "raised"
  /\ UNCHANGED <<program, options, has_subdirs, info>>
  /\ UNCHANGED notAdd

\* the subsequence of seq of the elements in keep
RECURSIVE Keep(_, _)
Keep(seq, keep) ==
  IF seq = <<>> THEN <<>>
  ELSE (IF Head(seq) \in keep THEN <<Head(seq)>> ELSE <<>>) \o Keep(Tail(seq), keep)

\* the file names of seq
Names(seq) == {seq[i] : i \in 1..Len(seq)}

\* the commands with a confirmation prompt: remove in both copies of the
\* program, disable in gr_modtool.py
Tools ==
  {[program |-> p, name |-> "remove"] : p \in Programs}
  \cup {[program |-> "gr_modtool.py", name |-> "disable"]}

\* what may be typed at the prompts
AnswerLines == UNION {[1..n -> {"y", "", "n", "a", "q"}] : n \in 0..MaxAnswers}

\* a remove or disable command after setup, on a module that holds and
\* lists every candidate file: the pattern matches any of them; with -y
\* nothing is asked
InitConfirm ==
  /\ \E t \in Tools, keep \in SUBSET UNION {Names(Candidates[d]) : d \in Subdirs} :
       tool = [program |-> t.program, name |-> t.name,
               matched |-> [d \in Subdirs |-> Keep(Candidates[d], keep)]]
  /\ \E yes \in BOOLEAN :
     \E answers \in (IF yes THEN {<<>>} ELSE AnswerLines) :
       session = [files |-> UNION {{Path(d, f) : f \in Names(Candidates[d])} :
                                    d \in Subdirs},
                  cmake |-> [d \in Subdirs |-> Names(Candidates[d])],
                  cmake_off |-> [d \in Subdirs |-> {}],
                  regs |-> {<<"qalib", "qa_b.h">>, <<"qalib", "qa_b.cc">>,
                            <<"swig", "b.h">>},
                  regs_off |-> {},
                  answers |-> answers, asked |-> <<>>, deleted |-> <<>>,
                  yes |-> yes, local_yes |-> FALSE, outcome |-> ""]
  /\ exit_status = <<>>
  /\ IdleEditor /\ IdleArgs /\ IdleRender /\ IdleAdd /\ IdleStart

\* how a run ends: it returns unless it was left before
Ended(s) == IF Going(s) THEN [s EXCEPT !.outcome = "returned"] ELSE s

\* ModToolRemove.run, to the end of the process
remove_run ==
  /\ exit_status = <<>>
  /\ tool.name = "remove"
  /\ session' = Ended(RemoveRun(session, tool.program, tool.matched))
  /\ exit_status' = <<ExitStatus(session'.outcome)>>
  /\ UNCHANGED tool
  /\ UNCHANGED notConfirm

\* ModToolDisable.run, to the end of the process
disable_run ==
  /\ exit_status = <<>>
  /\ tool.name = "disable"
  /\ session' = Ended(DisableRun(session, tool.matched,
                                 <<"lib", "include", "python", "swig", "grc">>))
  /\ exit_status' = <<ExitStatus(session'.outcome)>>
  /\ UNCHANGED tool
  /\ UNCHANGED notConfirm

Next ==
  \/ \E e \in Entries, i \in Ignores : get_entry_value(e, i)
  \/ \E e \in Entries, v \in Values, i \in Ignores : append_value(e, v, i)
  \/ \E e \in Entries, v \in Values, i \in Ignores : remove_value(e, v, i)
  \/ \E e \in Entries, p \in ValuePatterns : delete_entry(e, p)
  \/ write
  \/ remove_double_newlines
  \/ \E r \in FilePatterns : find_filenames_match(r)
  \/ \E f \in Fnames : disable_file(f)
  \/ \E p \in LinePatterns, c \in CommentStrs : comment_out_lines(p, c)

\* the calls that read and change the values of an entry
NextEntries ==
  \/ \E e \in Entries, i \in Ignores : get_entry_value(e, i)
  \/ \E e \in Entries, v \in Values, i \in Ignores : append_value(e, v, i)
  \/ \E e \in Entries, v \in Values, i \in Ignores : remove_value(e, v, i)

\* the calls of ModToolRemove's _remove_py_test_case
NextDelete ==
  \/ \E e \in Entries, p \in ValuePatterns : delete_entry(e, p)
  \/ remove_double_newlines

\* the calls that work line by line
NextLines ==
  \/ \E p \in LinePatterns, c \in CommentStrs : comment_out_lines(p, c)
  \/ remove_double_newlines

\* the calls of ModToolDisable.run
NextDisable ==
  \/ \E p \in FilePatterns : find_filenames_match(p)
  \/ \E p \in LinePatterns, c \in CommentStrs : comment_out_lines(p, c)
  \/ \E f \in Fnames : disable_file(f)
  \/ write

\* the calls of the argument-list functions, each on the result in hand
NextArgs ==
  \/ strip_default_values
  \/ strip_arg_types

\* one call of either renderer
NextRender ==
  \/ get_template
  \/ CodeGenerator_get_template

\* the files append_re_line_sequence is called on: include lines, other
\* lines, a last line without newline
IncludeFiles ==
  Texts({<<"#", "a", "\n">>, <<"#", "b", "\n">>, <<"x", "\n">>, <<"x">>}, MaxPieces)
InitIncludes == InitWith(IncludeFiles, {DefaultSeparator})
\* the lines pasted
NewLines == {<<"#", "x">>}
NextAppend ==
  \E p \in {IncludeLineRe, IncludeRe}, l \in NewLines : append_re_line_sequence(p, l)
\* append_re_line_sequence on files of include lines
SpecAppend == InitIncludes /\ [][NextAppend]_vars

\* any calls on any file
Spec == Init /\ [][Next]_vars
\* entry calls on files with an entry
SpecEntries == InitEntries /\ [][NextEntries]_vars
\* deletions on files with an entry
SpecDelete == InitDelete /\ [][NextDelete]_vars
\* line calls on files of lines
SpecLines == InitLines /\ [][NextLines]_vars
\* line calls on files of three runs of newlines
SpecRuns == InitRuns /\ [][NextLines]_vars
\* disabling calls on files of file names
SpecDisable == InitNames /\ [][NextDisable]_vars
\* the argument-list functions on argument lists
SpecArgs == InitArgs /\ [][NextArgs]_vars
\* the renderers on template keys and contexts
SpecRender == InitRender /\ [][NextRender]_vars

NextAdd ==
  \/ setup
  \/ run

SpecAdd == InitAdd /\ [][NextAdd]_vars

SpecLicense == InitLicense /\ [][NextAdd]_vars

\* the add command with a block name given with -N
NameOptions ==
  [block_type : BlockTypes, license_file : {None}, skip_cmakefiles : {FALSE},
   add_python_qa : {"True"}, add_cpp_qa : {"True"},
   skip : {[d \in Subdirs |-> FALSE]}, block_name : BlockNames]
InitNamed == InitAddOn(NameOptions, {{Path(".", "LICENSE")}}, SubdirSets)
SpecNamed == InitNamed /\ [][NextAdd]_vars

\* the add command with --skip-lib, --skip-python, --skip-swig, --skip-grc
\* given or not (there is no --skip-include)
SkipSets == {k \in [Subdirs -> BOOLEAN] : ~k["include"]}
SkipOptions ==
  [block_type : BlockTypes, license_file : {None}, skip_cmakefiles : {FALSE},
   add_python_qa : {"None", "True"}, add_cpp_qa : {"None", "True"},
   skip : SkipSets, block_name : {<<"b">>}]
InitSkip == InitAddOn(SkipOptions, {{Path(".", "LICENSE")}}, SubdirSets)
SpecSkip == InitSkip /\ [][NextAdd]_vars

NextConfirm ==
  \/ remove_run
  \/ disable_run

SpecConfirm == InitConfirm /\ [][NextConfirm]_vars

(***************************************************************************)
(* The start of a command on a directory: ModTool.setup for add, rm,       *)
(* disable and makexml, and the run of info, which checks the directory    *)
(* itself.                                                                 *)
(***************************************************************************)
\* the commands each copy of the program has
CommandsOf(prog) ==
  IF prog = "gr_modtool.py" THEN {"add", "rm", "disable", "makexml"}
  ELSE {"add", "rm", "makexml", "info"}

\* the directories a command is started in
Directories ==
  [readable : BOOLEAN, cmakelists : CMakeListsKinds,
   subdirs : SUBSET (Subdirs \cup {"docs"}), swigfile : BOOLEAN]
\* the directories above: a module's lib/ is where info is started from
UpDirectories ==
  [readable : {TRUE}, cmakelists : CMakeListsKinds,
   subdirs : {{"lib", "include"}}, swigfile : {FALSE}]

InitCheck ==
  /\ IdleEditor /\ IdleArgs /\ IdleRender /\ IdleAdd /\ IdleConfirm
  /\ \E prog \in Programs : \E command \in CommandsOf(prog) :
       argv = [program |-> prog, command |-> command]
  /\ \E dir \in Directories :
       \E up_dir \in (IF argv.command = "info" THEN UpDirectories
                      ELSE {CHOOSE u \in UpDirectories : u.cmakelists = "none"}) :
         fsys = [dir |-> dir, up_dir |-> up_dir]
  /\ modtool = <<>>
  /\ outcome = ""

\* ModTool.setup, which the setup of add, rm, disable and makexml starts with
modtool_setup ==
  /\ argv # <<>> /\ outcome = ""
  /\ argv.command \in {"add", "rm", "disable", "makexml"}
  /\ LET r == ModToolSetup(argv.program, fsys.dir)
     IN /\ modtool' = [has_subdirs |-> r.check.has_subdirs,
                       skipped |-> r.check.skipped, printed |-> ""]
        /\ outcome' = r.outcome
  /\ UNCHANGED <<argv, fsys>>
  /\ UNCHANGED notStart

\* ModToolInfo.run (its setup reads the command line only)
info_run ==
  /\ argv # <<>> /\ outcome = ""
  /\ argv.command = "info"
  /\ LET r == InfoRun(fsys.dir, fsys.up_dir)
     IN /\ modtool' = [has_subdirs |-> [d \in Subdirs |-> FALSE],
                       skipped |-> {}, printed |-> r.printed]
        /\ outcome' = r.outcome
  /\ UNCHANGED <<argv, fsys>>
  /\ UNCHANGED notStart

NextCheck ==
  \/ modtool_setup
  \/ info_run

SpecCheck == InitCheck /\ [][NextCheck]_vars

(***************************************************************************)
(* The newmod command as a state machine.                                  *)
(***************************************************************************)
DirectoryOptions == {".", "d"}
NewmodPaths == {TargetDir(d, n) : d \in DirectoryOptions, n \in ModuleNames}

\* the command lines: the name comes with -n, as an argument, or is typed
NewmodCommandLines ==
  UNION {{[program |-> "gr_modtool.py", command |-> "newmod",
           module_name |-> n, args |-> <<"newmod">>, directory |-> d,
           typed |-> <<>>],
          [program |-> "gr_modtool.py", command |-> "newmod",
           module_name |-> None, args |-> <<"newmod", n>>, directory |-> d,
           typed |-> <<>>],
          [program |-> "gr_modtool.py", command |-> "newmod",
           module_name |-> None, args |-> <<"newmod">>, directory |-> d,
           typed |-> n]} : n \in ModuleNames, d \in DirectoryOptions}

InitNewmod ==
  /\ IdleEditor /\ IdleArgs /\ IdleRender /\ IdleAdd /\ IdleConfirm
  /\ argv \in NewmodCommandLines
  /\ \E entries \in [NewmodPaths -> {"absent", "file", "directory"}],
        writable \in BOOLEAN :
       fsys = [entries |-> entries, initial |-> entries, writable |-> writable]
  /\ modtool = <<>>
  /\ outcome = ""

newmod_setup ==
  /\ argv # <<>> /\ argv.command = "newmod"
  /\ outcome = ""
  /\ LET r == NewmodSetup(argv, fsys)
     IN /\ modtool' = [modname |-> r.modname, dir |-> r.dir, stage |-> "setup"]
        /\ outcome' = r.outcome
  /\ UNCHANGED <<argv, fsys>>
  /\ UNCHANGED notStart

newmod_run ==
  /\ argv # <<>> /\ argv.command = "newmod"
  /\ outcome = "proceeds"
  /\ LET r == NewmodRun(modtool, fsys)
     IN /\ fsys' = r.fs
        /\ outcome' = r.outcome
  /\ modtool' = [modtool EXCEPT !.stage = "run"]
  /\ UNCHANGED argv
  /\ UNCHANGED notStart

NextNewmod ==
  \/ newmod_setup
  \/ newmod_run

SpecNewmod == InitNewmod /\ [][NextNewmod]_vars

(***************************************************************************)
(* Properties.  They are stated over positions of the text, without the    *)
(* matcher: an entry is a name, "(", characters other than parentheses,    *)
(* ")".                                                                    *)
(***************************************************************************)
Calls == 1..Len(log)
CallPairs == {k \in Calls : k + 1 \in Calls}
Min(S) == CHOOSE x \in S : \A y \in S : x <= y
Max(S) == CHOOSE x \in S : \A y \in S : x >= y
Contains(s, w) == \E i \in 1..Len(s) + 1 : StartsWithAt(s, i, w)
From(s, i) == SubSeq(s, i, Len(s))

\* the "(" of an entry named e that starts at p (0: none); gap allows
\* white space between the name and the parenthesis
OpenOf(s, e, p, gap) ==
  LET os == {o \in p + Len(e)..Len(s) :
               /\ StartsWithAt(s, p, e)
               /\ s[o] = "("
               /\ \A k \in p + Len(e)..o - 1 : s[k] \in Space
               /\ gap \/ o = p + Len(e)}
  IN IF os = {} THEN 0 ELSE Min(os)

\* the ")" that closes the parenthesis at o (0: another "(" comes first, or none)
CloseOf(s, o) ==
  LET ps == {q \in o + 1..Len(s) : s[q] \in {"(", ")"}}
  IN IF o = 0 \/ ps = {} THEN 0 ELSE IF s[Min(ps)] = ")" THEN Min(ps) ELSE 0

\* where the DESTINATION tail of the entry o..q starts (0: it has none)
TailOf(s, o, q) ==
  LET ts == {t \in o + 1..q - 2 : s[t] = "D"}
  IN IF ts = {} THEN 0 ELSE Min(ts)

\* the entries append_value can extend: closed, and with a tail when one
\* is to be ignored
AppendSites(s, e, tailed) ==
  {p \in 1..Len(s) :
     LET q == CloseOf(s, OpenOf(s, e, p, FALSE))
     IN q # 0 /\ (tailed => TailOf(s, OpenOf(s, e, p, FALSE), q) # 0)}

\* the first such entry's place of insertion: the closing parenthesis, or
\* the start of the tail
AppendPlace(s, e, tailed) ==
  LET o == OpenOf(s, e, Min(AppendSites(s, e, tailed)), FALSE)
  IN [o |-> o, t |-> IF tailed THEN TailOf(s, o, CloseOf(s, o)) ELSE CloseOf(s, o)]

\* text inserted right at the place, nothing else touched
InsertedAtPlace(s, e, tailed, text) ==
  LET t == AppendPlace(s, e, tailed).t
  IN SubSeq(s, 1, t - 1) \o text \o From(s, t)

\* text inserted after the last character of the entry that is not white
\* space; of the white space up to the place only the last character stays
InsertedAfterContent(s, e, tailed, text) ==
  LET pl == AppendPlace(s, e, tailed)
      w == Max({k \in pl.o..pl.t - 1 : s[k] \notin Space})
  IN SubSeq(s, 1, w) \o text
       \o (IF w < pl.t - 1 THEN <<s[pl.t - 1]>> ELSE <<>>) \o From(s, pl.t)

IsAppend(k) == log[k].op = "append_value"
Tailed(k) == log[k].ignore # NoIgnore
AppendHasEntry(k) ==
  IsAppend(k) /\ AppendSites(log[k].pre, log[k].entry, Tailed(k)) # {}

\* C1: no call other than write() changes the file: it keeps the content
\* read at construction until the first write(), and right after a write()
\* it equals the buffer.
C1_DiskOnlyByWrite ==
  /\ (\A k \in Calls : log[k].op # "write") => disk = orig
  /\ (log # <<>> /\ log[Len(log)].op = "write") => disk = cfile

\* C1 witness: a value was appended, then the buffer written
C1_Witness ==
  /\ Len(log) = 2
  /\ IsAppend(1) /\ log[1].post # log[1].pre
  /\ log[2].op = "write"
  /\ disk = cfile /\ disk # orig

\* C2 as claimed: on a buffer holding the entry, append_value puts the
\* separator and the value immediately before the closing parenthesis (the
\* tail, when one is ignored) of the first entry and changes nothing else.
C2_InsertsRightBeforeParen ==
  \A k \in Calls :
    AppendHasEntry(k) =>
      log[k].post = InsertedAtPlace(log[k].pre, log[k].entry, Tailed(k),
                                    separator \o log[k].value)

\* C2 amended: on a buffer holding the entry, append_value puts the
\* separator and the value after the last character of the first entry's
\* content that is not white space; of the white space between that
\* character and the closing parenthesis (the tail, when one is ignored)
\* only the last character is kept, after the value; nothing else changes.
C2_InsertsAfterContent ==
  \A k \in Calls :
    AppendHasEntry(k) =>
      log[k].post = InsertedAfterContent(log[k].pre, log[k].entry, Tailed(k),
                                         separator \o log[k].value)

\* C2 witness: an append into an entry whose content ends in white space,
\* before an ignored tail
C2_Witness ==
  \E k \in Calls :
    /\ AppendHasEntry(k) /\ Tailed(k)
    /\ log[k].post # log[k].pre
    /\ log[k].post # InsertedAtPlace(log[k].pre, log[k].entry, Tailed(k),
                                     separator \o log[k].value)

SameEntryAndValue(k, l) ==
  log[k].entry = log[l].entry /\ log[k].value = log[l].value

\* C3 as claimed: remove_value(NAME, value) right after append_value(NAME,
\* value), on a buffer holding the entry and not the value, gives back the
\* buffer as it was before the append.
C3_RemoveUndoesAppend ==
  \A k \in CallPairs :
    ( /\ AppendHasEntry(k) /\ ~Tailed(k)
      /\ ~Contains(log[k].pre, log[k].value)
      /\ log[k + 1].op = "remove_value" /\ ~Tailed(k + 1)
      /\ SameEntryAndValue(k, k + 1) )
    => log[k + 1].post = log[k].pre

\* the entries that hold the value v
RemoveSites(s, e, v) ==
  {p \in 1..Len(s) :
     LET o == OpenOf(s, e, p, FALSE)
         q == CloseOf(s, o)
     IN q # 0 /\ \E i \in o + 1..q - Len(v) : StartsWithAt(s, i, v)}

\* s without the first occurrence of v in the first such entry and without
\* the white space right before that occurrence
WithoutValue(s, e, v) ==
  LET o == OpenOf(s, e, Min(RemoveSites(s, e, v)), FALSE)
      i == Min({j \in o + 1..CloseOf(s, o) - Len(v) : StartsWithAt(s, j, v)})
      w == Min({k \in o + 1..i : \A j \in k..i - 1 : s[j] \in Space})
  IN SubSeq(s, 1, w - 1) \o From(s, i + Len(v))

\* C4 as claimed: remove_value deletes the first occurrence of the value
\* in the first entry holding it, with the white space before it, and
\* leaves the rest of the entry and the text outside it unchanged.
C4_RemovesValueAndLeadingSpace ==
  \A k \in Calls :
    ( /\ log[k].op = "remove_value" /\ ~Tailed(k)
      /\ RemoveSites(log[k].pre, log[k].entry, log[k].value) # {} )
    => log[k].post = WithoutValue(log[k].pre, log[k].entry, log[k].value)

\* s with marker put before every line that holds the pattern, once
RECURSIVE Commented(_, _, _, _)
Commented(s, i, pattern, marker) ==
  IF i > Len(s) THEN <<>>
  ELSE LET e == IndexFrom(s, "\n", i)
       IN (IF Contains(Slice(s, i, e), pattern) THEN marker ELSE <<>>)
            \o (IF e > Len(s) THEN From(s, i)
                ELSE SubSeq(s, i, e) \o Commented(s, e + 1, pattern, marker))

\* C5 as claimed: comment_out_lines puts exactly one marker before every
\* line that holds the pattern and changes no other line, whatever the
\* buffer (repeated lines, lines that are part of other lines).
C5_EachMatchingLineOnce ==
  \A k \in Calls :
    log[k].op = "comment_out_lines"
    => log[k].post = Commented(log[k].pre, 1, log[k].entry, log[k].value)

\* the entries delete_entry can delete: name, optional white space, a
\* closed parenthesis whose content holds v, and a newline after it
DeleteSites(s, e, v) ==
  {p \in 1..Len(s) :
     LET q == CloseOf(s, OpenOf(s, e, p, TRUE))
     IN /\ q # 0
        /\ Contains(SubSeq(s, OpenOf(s, e, p, TRUE) + 1, q - 1), v)
        /\ \E n \in q + 1..Len(s) : s[n] = "\n"}

\* the first newline after the first such entry's closing parenthesis
DeleteEnd(s, e, v) ==
  LET q == CloseOf(s, OpenOf(s, e, Min(DeleteSites(s, e, v)), TRUE))
  IN Min({n \in q + 1..Len(s) : s[n] = "\n"})

\* where the line of position p starts
LineStart(s, p) == Max({1} \cup {j + 1 : j \in {i \in 1..p - 1 : s[i] = "\n"}})

IsDelete(k) == log[k].op = "delete_entry"

\* C6 as claimed: delete_entry removes the whole line holding the first
\* entry whose content holds value_pattern, newline included, and nothing
\* else.
C6_DeletesWholeLine ==
  \A k \in Calls :
    (IsDelete(k) /\ DeleteSites(log[k].pre, log[k].entry, log[k].value) # {})
    => LET s == log[k].pre
           p == Min(DeleteSites(s, log[k].entry, log[k].value))
       IN log[k].post = SubSeq(s, 1, LineStart(s, p) - 1)
                          \o From(s, DeleteEnd(s, log[k].entry, log[k].value) + 1)

\* C6 amended: delete_entry removes the text from the start of the first
\* entry NAME(...) whose content holds value_pattern and whose closing
\* parenthesis has a newline after it, through the first newline after that
\* parenthesis; the text before the entry on its line stays, nothing else
\* is removed, later entries stay; without such an entry nothing changes.
C6_DeletesFromEntryToNewline ==
  \A k \in Calls :
    IsDelete(k)
    => LET s == log[k].pre
           sites == DeleteSites(s, log[k].entry, log[k].value)
       IN log[k].post =
            IF sites = {} THEN s
            ELSE SubSeq(s, 1, Min(sites) - 1)
                   \o From(s, DeleteEnd(s, log[k].entry, log[k].value) + 1)

\* C6 witness: an indented entry deleted, its indentation left behind, and
\* a later entry with the same name still in the buffer
C6_Witness ==
  \E k \in Calls :
    /\ IsDelete(k)
    /\ DeleteSites(log[k].pre, log[k].entry, log[k].value) # {}
    /\ LET p == Min(DeleteSites(log[k].pre, log[k].entry, log[k].value))
       IN LineStart(log[k].pre, p) < p
    /\ Len(log[k].post) < Len(log[k].pre)
    /\ AppendSites(log[k].post, log[k].entry, FALSE) # {}

\* the entries remove_value can match: at the start of a line but for
\* white space, closed, holding v (after the tail, when one is ignored)
RemoveMatchSites(s, e, v, tailed) ==
  {p \in 1..Len(s) :
     LET o == OpenOf(s, e, p, FALSE)
         q == CloseOf(s, o)
         d == IF q = 0 THEN {}
              ELSE {t \in o + 1..q - 1 :
                      s[t] = "D" /\ \A j \in o + 1..t - 1 : s[j] \in Space}
     IN /\ q # 0
        /\ \A j \in LineStart(s, p)..p - 1 : s[j] \in Space
        /\ tailed => d # {}
        /\ \E i \in o + 1..q - Len(v) :
             StartsWithAt(s, i, v) /\ (tailed => \A t \in d : i >= t + 2)}

\* the call's pattern occurs nowhere in the buffer it was made on
PatternAbsent(k) ==
  LET s == log[k].pre
      op == log[k].op
  IN \/ op = "append_value" /\ AppendSites(s, log[k].entry, Tailed(k)) = {}
     \/ op = "remove_value"
          /\ RemoveMatchSites(s, log[k].entry, log[k].value, Tailed(k)) = {}
     \/ op = "delete_entry" /\ DeleteSites(s, log[k].entry, log[k].value) = {}
     \/ op = "comment_out_lines" /\ ~Contains(s, log[k].entry)
     \/ op = "remove_double_newlines" /\ ~Contains(s, <<"\n", "\n", "\n">>)

\* C7: append_value, remove_value, delete_entry, comment_out_lines and
\* remove_double_newlines leave the buffer as it is when their pattern
\* occurs nowhere in it.
C7_NoMatchNoChange ==
  \A k \in Calls : PatternAbsent(k) => log[k].post = log[k].pre

\* C7 witness: a remove_value and then an append_value that found nothing
\* to match in a buffer that is not empty
C7_Witness ==
  /\ Len(log) = 2
  /\ log[1].op = "remove_value" /\ PatternAbsent(1)
  /\ IsAppend(2) /\ PatternAbsent(2)
  /\ cfile = orig /\ cfile # <<>>

\* C8: after an append_value that found its entry, get_entry_value of the
\* same entry returns a string that holds the value.
C8_GetHoldsAppended ==
  \A k \in CallPairs :
    ( /\ AppendHasEntry(k)
      /\ log[k + 1].op = "get_entry_value" /\ ~Tailed(k + 1)
      /\ log[k + 1].entry = log[k].entry )
    => log[k + 1].found /\ Contains(log[k + 1].val, log[k].value)

\* C8 witness: a value appended to an entry that held another value, then
\* read back
C8_Witness ==
  /\ Len(log) = 2
  /\ AppendHasEntry(1) /\ ~Tailed(1)
  /\ log[2].op = "get_entry_value" /\ ~Tailed(2)
  /\ log[2].found /\ Contains(log[2].val, <<"a">>)
  /\ Contains(log[2].val, log[1].value)

\* C9: two append_value calls in a row with the same arguments put the
\* value into the first entry twice, each time after the separator.
C9_AppendTwiceAddsTwice ==
  \A k \in CallPairs :
    ( /\ AppendHasEntry(k) /\ IsAppend(k + 1)
      /\ SameEntryAndValue(k, k + 1) /\ log[k + 1].ignore = log[k].ignore )
    => log[k + 1].post =
         InsertedAfterContent(log[k].pre, log[k].entry, Tailed(k),
                              separator \o log[k].value
                                \o separator \o log[k].value)

\* C9 witness: the same value appended twice to an entry
C9_Witness ==
  /\ Len(log) = 2
  /\ AppendHasEntry(1) /\ IsAppend(2)
  /\ SameEntryAndValue(1, 2) /\ log[2].ignore = log[1].ignore
  /\ Len(cfile) = Len(orig) + 2 * (Len(separator) + Len(log[1].value))

\* s without every newline that follows two newlines
RECURSIVE Collapsed(_, _)
Collapsed(s, i) ==
  IF i > Len(s) THEN <<>>
  ELSE (IF i >= 3 /\ s[i] = "\n" /\ s[i - 1] = "\n" /\ s[i - 2] = "\n"
        THEN <<>> ELSE <<s[i]>>)
       \o Collapsed(s, i + 1)

IsRdn(k) == log[k].op = "remove_double_newlines"

\* C10: after remove_double_newlines the buffer has no three newlines in a
\* row, every run of three or more has become two, the rest is unchanged,
\* and a second call right after changes nothing.
C10_CollapsesRuns ==
  \A k \in Calls :
    IsRdn(k)
    => /\ ~Contains(log[k].post, <<"\n", "\n", "\n">>)
       /\ log[k].post = Collapsed(log[k].pre, 1)
       /\ (k + 1 \in Calls /\ IsRdn(k + 1)) => log[k + 1].post = log[k].post

\* C10 witness: a buffer with a run of four or more collapsed, then the
\* call repeated
C10_Witness ==
  /\ Len(log) = 2 /\ IsRdn(1) /\ IsRdn(2)
  /\ Contains(log[1].pre, <<"\n", "\n", "\n", "\n">>)
  /\ Contains(log[1].pre, <<"a">>)
  /\ cfile = log[1].post /\ cfile # orig

(***************************************************************************)
(* C11: three runs of 4, 1 and 5 newlines                                   *)
(***************************************************************************)
\* C11 as stated: on a buffer with three blank-line runs of size 4, 1 and
\* 5, remove_double_newlines() makes all three runs exactly size 2
C11_AllRunsBecomeTwo ==
  \A k \in Calls :
    (IsRdn(k) /\ log[k].pre = RunBuffer(4, 1, 5))
    => log[k].post = RunBuffer(2, 2, 2)

\* what remove_double_newlines leaves of a run of n newlines
RunAfter(n) == IF n >= 3 THEN 2 ELSE n

\* C11 (amended): on a buffer with three runs of newlines,
\* remove_double_newlines() makes every run of three or more newlines a run
\* of exactly two and leaves shorter runs and all text as they are; runs of
\* 4, 1 and 5 become runs of 2, 1 and 2
C11_LongRunsBecomeTwo ==
  \A k \in Calls :
    IsRdn(k)
    => /\ \A i \in 1..MaxRun, j \in 1..MaxRun, l \in 1..MaxRun :
            log[k].pre = RunBuffer(i, j, l)
            => log[k].post = RunBuffer(RunAfter(i), RunAfter(j), RunAfter(l))
       /\ log[k].pre = RunBuffer(4, 1, 5) => log[k].post = RunBuffer(2, 1, 2)

\* C11 witness: the call made on the buffer with runs of 4, 1 and 5
C11_Witness ==
  /\ Len(log) >= 1 /\ IsRdn(1)
  /\ log[1].pre = RunBuffer(4, 1, 5)
  /\ cfile = RunBuffer(2, 1, 2)

(***************************************************************************)
(* C12: disable_file's warning                                             *)
(***************************************************************************)
\* how often ch is in s
RECURSIVE Count(_, _)
Count(s, ch) ==
  IF s = <<>> THEN 0
  ELSE (IF Head(s) = ch THEN 1 ELSE 0) + Count(Tail(s), ch)

IsDisable(k) == log[k].op = "disable_file"

\* the substitutions seen in the buffer: each one puts one comment marker
MarkersAdded(k) == Count(log[k].post, "#") - Count(log[k].pre, "#")

\* C12: disable_file(fname) never aborts: every call returns with the
\* buffer it substituted in, and it has warned exactly when the number of
\* substitutions it made in the buffer is zero or greater than one
C12_WarnsUnlessOneSubstitution ==
  \A k \in Calls :
    IsDisable(k)
    => /\ log[k].nsubs = MarkersAdded(k)
       /\ log[k].warned <=> (MarkersAdded(k) = 0 \/ MarkersAdded(k) > 1)
       /\ MarkersAdded(k) = 0 => log[k].post = log[k].pre
       /\ k = Len(log) => cfile = log[k].post

\* C12 witness: a call that replaced twice in a buffer with the name
\* twice, and warned
C12_Witness ==
  /\ Len(log) >= 1 /\ IsDisable(1)
  /\ log[1].nsubs = 2 /\ log[1].warned
  /\ Count(log[1].post, "#") = 2 /\ cfile = log[1].post

(***************************************************************************)
(* C13, C14: the argument-list functions                                   *)
(***************************************************************************)
ArgCalls == 1..Len(results)
IsStripDefaults(k) == results[k].fn = "strip_default_values"
IsStripTypes(k) == results[k].fn = "strip_arg_types"

\* C13: strip_default_values is idempotent: for every argument-list string
\* s, strip_default_values(strip_default_values(s)) equals
\* strip_default_values(s)
C13_StripDefaultsIdempotent ==
  \A k \in ArgCalls :
    (IsStripDefaults(k) /\ k + 1 \in ArgCalls /\ IsStripDefaults(k + 1))
    => /\ results[k + 1].arg = results[k].out
       /\ results[k + 1].out = results[k].out

\* C13 witness: an argument list with two default values stripped, and
\* stripped again
C13_Witness ==
  /\ Len(results) = 2 /\ IsStripDefaults(1) /\ IsStripDefaults(2)
  /\ Count(results[1].arg, "=") = 2
  /\ Count(results[1].arg, ",") = 1
  /\ Len(results[1].out) = Len(results[1].arg) - 2
  /\ string = results[1].out

\* the last whitespace-delimited token of p, empty when p has none
LastToken(p) ==
  LET solid == {i \in 1..Len(p) : p[i] \notin ArgSpace}
  IN IF solid = {} THEN <<>>
     ELSE LET e == Max(solid)
              b == Min({j \in 1..e : \A i \in j..e : i \in solid})
          IN SubSeq(p, b, e)

\* C14: for every argument-list string with N comma-separated parameters,
\* strip_arg_types returns exactly N tokens joined by ", ", the i-th token
\* being the last whitespace-delimited token of the i-th parameter after
\* default values are stripped; for the empty argument list it returns the
\* empty string
C14_LastTokenOfEachParameter ==
  \A k \in ArgCalls :
    IsStripTypes(k)
    => LET params == SplitOn(results[k].arg, ",")
       IN /\ results[k].out =
               JoinComma([i \in 1..Len(params) |->
                            LastToken(StripDefaultValues(params[i]))])
          /\ results[k].arg = <<>> => results[k].out = <<>>

(***************************************************************************)
(* C15, C16: the renderers                                                 *)
(***************************************************************************)
Rendered == renderer # "none"

\* the registry of the renderer that was called
Registry ==
  IF renderer = "get_template" THEN DOMAIN Templates ELSE SplitTemplates

\* the context lacks a placeholder that the chosen template refers to
LacksPlaceholder ==
  /\ tpl_id \in DOMAIN Templates
  /\ \E i \in 1..Len(Templates[tpl_id]) : Templates[tpl_id][i] \notin DOMAIN context

\* the error that tells a caller of an unknown template key: the KeyError
\* of the registry, naming a key that the registry does not hold
UnknownKeyError(e) == ~e.ok /\ e.exc = "KeyError" /\ e.arg \notin Registry

\* C15: get_template(template_key, context) never returns text when the
\* context lacks a placeholder that the chosen template references or when
\* template_key is not in the Templates registry: in both cases it raises,
\* and the error of the first case is never the error of the second
C15_DistinctRenderErrors ==
  Rendered
  => /\ tpl_id \notin Registry => UnknownKeyError(rendered)
     /\ (tpl_id \in Registry /\ LacksPlaceholder)
        => ~rendered.ok /\ ~UnknownKeyError(rendered)

\* the rate-change placeholder stands in the base-class constructor call
HasRateChange(text) ==
  \E i, j, k \in 1..Len(text) :
    /\ i < j /\ j < k
    /\ text[i] = "(" /\ text[k] = ")"
    /\ text[j] \in {", <+decimation+>", ", <+interpolation+>"}

OmitsWork(text) == \A i \in 1..Len(text) : text[i] \notin {"work", "general_work"}

HasWiring(text) ==
  \E i \in 1..Len(text) : text[i] = "connect(self(), 0, d_firstblock, 0);"

\* a rendering of block_impl_cpp for a block type of the table, with every
\* key in the context
RendersBlockImplCpp ==
  /\ Rendered /\ tpl_id = "block_impl_cpp"
  /\ DOMAIN context = ContextKeys
  /\ context["blocktype"] \in DOMAIN grtypelist

BlockImplCppAsClaimed ==
  /\ rendered.ok
  /\ HasRateChange(rendered.text)
     <=> context["blocktype"] \in {"decimator", "interpolator"}
  /\ (OmitsWork(rendered.text) /\ HasWiring(rendered.text))
     <=> context["blocktype"] = "hiercpp"
  /\ OmitsWork(rendered.text) <=> HasWiring(rendered.text)

\* C16: when rendering block_impl_cpp, for kind decimator and for kind
\* interpolator, and for no other kind, a rate-change placeholder is
\* inserted into the base-class constructor call; for kind hiercpp, and for
\* no other kind, the work function is omitted and the constructor body
\* contains the connection-wiring boilerplate
C16_BlockCppByKind == RendersBlockImplCpp => BlockImplCppAsClaimed

\* the same of gr_modtool.py's get_template alone
BlockCppByKindOfGetTemplate ==
  (RendersBlockImplCpp /\ renderer = "get_template") => BlockImplCppAsClaimed

(***************************************************************************)
(* C17..C19: the add command                                               *)
(***************************************************************************)
\* C17: whenever the add command calls the renderer, the block type in its
\* context is a key of grtypelist; setup leaves a type of the closed set
\* that is neither 'source' nor 'sink'
C17_RenderedKindsHaveBaseClass ==
  /\ \A i \in 1..Len(renders) : renders[i].blocktype \in DOMAIN grtypelist
  /\ pc = "run" => info.blocktype \in BlockTypes \ {"source", "sink"}
  /\ pc = "run" => info.blocktype \in DOMAIN grtypelist

\* a sink given with -t: the run renders its three files as a sync block
C17_Witness ==
  /\ pc = "returned"
  /\ options.block_type = "sink"
  /\ Len(renders) >= 3
  /\ \A i \in 1..Len(renders) : renders[i].blocktype = "sync" /\ renders[i].ok

\* the license sources, highest priority first, and the text of each
LicenseGiven == options.license_file # None /\ tree[options.license_file] # Absent
HasLICENSE == tree[Path(".", "LICENSE")] # Absent
HasLICENCE == tree[Path(".", "LICENCE")] # Absent

\* C18: setup takes the license from the file of --license-file if that is
\* an existing file, else from LICENSE, else from LICENCE, else the default
\* text; a lower source is used only when every higher one is unavailable
C18_LicenseByPriority ==
  pc = "run" =>
    /\ LicenseGiven => info.license = "text of license.txt"
    /\ ~LicenseGiven /\ HasLICENSE => info.license = "text of LICENSE"
    /\ ~LicenseGiven /\ ~HasLICENSE /\ HasLICENCE
         => info.license = "text of LICENCE"
    /\ ~LicenseGiven /\ ~HasLICENSE /\ ~HasLICENCE
         => info.license = DefaultLicense
    /\ info.license = "text of LICENSE" => ~LicenseGiven
    /\ info.license = "text of LICENCE" => ~LicenseGiven /\ ~HasLICENSE
    /\ info.license = DefaultLicense => ~LicenseGiven /\ ~HasLICENSE /\ ~HasLICENCE

\* --license-file names a file that does not exist, LICENSE and LICENCE
\* both exist: the text of LICENSE is taken
C18_Witness ==
  /\ pc = "run"
  /\ options.license_file = LicenseFile
  /\ tree[LicenseFile] = Absent
  /\ HasLICENSE /\ HasLICENCE
  /\ info.license = "text of LICENSE"

\* C19: with --skip-cmakefiles no CMakeLists.txt is modified by the add
\* command, whatever the block type and the QA answers: every one has the
\* content it had before the run and none is edited
C19_SkipCmakefilesLeavesCMakeLists ==
  options.skip_cmakefiles =>
    /\ \A p \in CMakePaths : tree[p] = InitialTree(has_subdirs, FALSE, {})[p]
    /\ \A i \in 1..Len(trace) : trace[i].path \notin CMakePaths

(***************************************************************************)
(* C20: a quit at a confirmation prompt                                    *)
(***************************************************************************)
\* the user answered q at a prompt of the command named
Quit(name) ==
  /\ tool.name = name
  /\ exit_status # <<>>
  /\ session.asked # <<>>
  /\ session.asked[Len(session.asked)].ans = "q"

\* C20: a quit answer at a confirmation prompt of remove or disable ends the
\* process with a non-zero status
C20_QuitExitsNonZero ==
  Quit("remove") \/ Quit("disable") => exit_status[1] # 0

\* C20, amended: a quit answer at a confirmation prompt of remove or
\* disable ends the process at once through sys.exit(0), with status 0
C20_QuitExitsZero ==
  Quit("remove") \/ Quit("disable") =>
    session.outcome = "sys.exit(0)" /\ exit_status = <<0>>

\* remove: the first file is deleted on y, the second prompt is answered q
C20_Witness ==
  /\ Quit("remove")
  /\ Len(session.asked) = 2
  /\ session.asked[1].ans = "y"
  /\ Path("lib", "b_impl.cc") \notin session.files
  /\ exit_status = <<0>>

(***************************************************************************)
(* Properties of the start of a command.                                   *)
(***************************************************************************)
\* a command has ended (a setup that proceeds has not)
Exited == outcome \notin {"", "proceeds"}
\* the directory can be listed and holds a CMakeLists.txt with the marker
HoldsModuleCMakeLists(dir) == dir.readable /\ HasMarker(dir)
\* a module directory as the specification describes it
ValidModuleDirectory(dir) ==
  HoldsModuleCMakeLists(dir) /\ dir.subdirs \cap Subdirs # {}

C26_NoKnownSubdirRejected ==
  (/\ argv.command # "info"
   /\ outcome # ""
   /\ fsys.dir.subdirs \cap Subdirs = {})
    => outcome = "sys.exit(1)"

(***************************************************************************)
(* Properties of names and of the --skip options of the add command.       *)
(***************************************************************************)
\* a name of letters, digits and underscores only, and not empty
IsIdentifier(name) ==
  /\ name # <<>>
  /\ \A k \in 1..Len(name) : name[k] \in {"a", "b", "x", "D", "_", "1"}

\* C22 as stated: when the block name given is no identifier, the add
\* command ends in setup, by an exit or an exception, and no file operation
\* has taken place
C22_InvalidBlockNameExits ==
  (pc # "setup" /\ ~IsIdentifier(options.block_name))
    => (pc \in {"exit 1", "exit 2", "raised"} /\ trace = <<>>)

\* C23 as stated: at every point of a run of add, the block file an edit of
\* a CMakeLists.txt or registration file refers to was written earlier in
\* the run
C23_EditedFilesReferToWrittenFiles ==
  \A k \in 1..Len(trace) :
    trace[k].op = "edit" =>
      \E j \in 1..(k - 1) :
        trace[j].op = "write" /\ trace[j].path = trace[k].refers

\* C27 as stated: every file a run of add writes or edits lies in a
\* subdirectory that exists and was not excluded with a --skip option
C27_OnlyInSubdirsNotSkipped ==
  \A k \in 1..Len(trace) :
    has_subdirs[Dir(trace[k].path)] /\ ~options.skip[Dir(trace[k].path)]

(***************************************************************************)
(* Properties of the newmod command.                                       *)
(***************************************************************************)
\* the directory the command line asks for
Target == TargetDir(argv.directory, ModuleName(argv))

\* C29: nothing that existed at the start is changed, and when the target
\* directory existed the command has left through sys.exit(2), status 2, in
\* setup, with every path as it was
C29_ExistingPathUntouched ==
  /\ \A p \in NewmodPaths :
       fsys.initial[p] # "absent" => fsys.entries[p] = fsys.initial[p]
  /\ (outcome # "" /\ fsys.initial[Target] # "absent")
       => (/\ outcome = "sys.exit(2)"
           /\ ExitStatus(outcome) = 2
           /\ modtool.stage = "setup"
           /\ fsys.entries = fsys.initial)

\* newmod with a valid name has ended on a directory that was there
C29_Witness ==
  /\ outcome = "sys.exit(2)"
  /\ BlockNameMatches(ModuleName(argv))
  /\ fsys.initial[Target] = "directory"

\* newmod has made a module directory
NewmodCreates ==
  outcome = "returned" /\ fsys.entries[Target] = "module x"

(***************************************************************************)
(* Properties of a run of remove.                                          *)
(***************************************************************************)
\* the subdirectory of a candidate file, and whether the file is on disk
SubdirOf(f) == CHOOSE d \in Subdirs : f \in Names(Candidates[d])
OnDisk(f) == Path(SubdirOf(f), f) \in session.files
\* the matched files in the order run goes through them
RemoveOrder ==
  tool.matched["lib"] \o tool.matched["include"] \o tool.matched["swig"]
    \o tool.matched["python"] \o tool.matched["grc"]
\* a remove run has ended
RemoveEnded == exit_status # <<>> /\ tool.name = "remove"

\* C24 as stated: when a remove run has ended, by returning or by a 'q'
\* answer, no file it deleted is still listed in the CMakeLists.txt of its
\* subdirectory on disk
C24_DeletedFilesUnlisted ==
  RemoveEnded =>
    \A d \in Subdirs : \A f \in Names(Candidates[d]) :
      Path(d, f) \notin session.files => f \notin session.cmake[d]

\* C30: when a remove run has ended, a file answered 'n' is on disk and in
\* no list of deleted files; a file answered 'y', '' or 'a' is deleted and in
\* such a list; nothing is asked after an 'a'; every file in a list of
\* deleted files is gone; and after an 'a' the later files of the same
\* subdirectory are deleted, and those of the later subdirectories too when
\* the run returns
C30_AnswersDecideDeletion ==
  RemoveEnded =>
    /\ \A i \in 1..Len(session.asked) :
         LET q == session.asked[i]
         IN /\ q.ans = "n" =>
                 (OnDisk(q.file) /\ q.file \notin Names(session.deleted))
            /\ q.ans \in {"y", "", "a"} =>
                 (~OnDisk(q.file) /\ q.file \in Names(session.deleted))
            /\ q.ans = "a" => i = Len(session.asked)
    /\ \A f \in Names(session.deleted) : ~OnDisk(f)
    /\ \A i \in 1..Len(session.asked) : \A k \in 1..Len(RemoveOrder) :
         \A j \in 1..(k - 1) :
           (session.asked[i].ans = "a" /\ RemoveOrder[j] = session.asked[i].file)
             => /\ SubdirOf(RemoveOrder[k]) = SubdirOf(RemoveOrder[j])
                     => ~OnDisk(RemoveOrder[k])
                /\ session.outcome = "returned" => ~OnDisk(RemoveOrder[k])

\* a run that returned after 'n' for one file of lib and 'a' for the next,
\* and went on to delete a file of python without asking
C30_Witness ==
  /\ RemoveEnded
  /\ session.outcome = "returned"
  /\ Len(session.asked) = 2
  /\ session.asked[1] = [file |-> "b_impl.cc", ans |-> "n"]
  /\ session.asked[2] = [file |-> "qa_b.cc", ans |-> "a"]
  /\ OnDisk("b_impl.cc")
  /\ "qa_b.py" \in Names(session.deleted)

(***************************************************************************)
(* Properties of find_filenames_match followed by disable_file.            *)
(***************************************************************************)
\* call k is find_filenames_match and call k + 1 disables a name it returned
FoundThenDisabled(k) ==
  /\ log[k].op = "find_filenames_match"
  /\ log[k + 1].op = "disable_file"
  /\ log[k + 1].entry \in Names(log[k].names)

\* C28: when disable_file(f) follows a find_filenames_match(pattern) that
\* returned f, find_filenames_match(pattern) on the buffer disable_file left
\* does not return f, and neither does the next call if it is such a call
C28_DisabledFileNotFoundAgain ==
  \A k \in CallPairs :
    FoundThenDisabled(k) =>
      /\ log[k + 1].entry
           \notin Names(FindFilenamesMatch(log[k + 1].post, log[k].entry))
      /\ (/\ k + 2 \in Calls
          /\ log[k + 2].op = "find_filenames_match"
          /\ log[k + 2].entry = log[k].entry)
           => log[k + 1].entry \notin Names(log[k + 2].names)

\* a name was found twice in the buffer and then disabled at both places
C28_Witness ==
  \E k \in CallPairs :
    /\ FoundThenDisabled(k)
    /\ Len(log[k].names) = 2
    /\ log[k + 1].nsubs = 2

(***************************************************************************)
(* Properties of append_re_line_sequence.                                  *)
(***************************************************************************)
\* the positions after the newline of each line of s that holds "#" (at its
\* start if anchored) and ends in a newline
MatchingLineEnds(s, anchored) ==
  {e \in 2..(Len(s) + 1) :
     /\ s[e - 1] = "\n"
     /\ \E b \in 1..(e - 1) :
          /\ s[b] = "#"
          /\ anchored => (b = 1 \/ s[b - 1] = "\n")
          /\ \A j \in b..(e - 2) : s[j] # "\n"}

\* C25 as stated: the line is pasted once, right after the last matching
\* line, and at the end of the file when no line matches; the rest of the
\* file is as it was
C25_PastedOnceAfterLastMatch ==
  \A k \in Calls :
    log[k].op = "append_re_line_sequence" =>
      LET s == log[k].pre
          ends == MatchingLineEnds(s, log[k].entry = IncludeLineRe)
      IN log[k].post =
           IF ends = {} THEN s \o log[k].value
           ELSE Slice(s, 1, Max(ends)) \o log[k].value \o <<"\n">>
                  \o Slice(s, Max(ends), Len(s) + 1)

====
